---- MODULE Spec2Model ----
(***************************************************************************)
(* A model of python_smi_tools/rocm_smi.py: the command-line front end of  *)
(* the ROCm SMI library.  The native library is the environment: every     *)
(* library call returns a status and values chosen nondeterministically.   *)
(*                                                                         *)
(* The module holds several specifications over one set of variables:      *)
(*   Spec       the __main__ flow: initializeRsmi, relaunchAsSudo, device  *)
(*              list selection, dispatch of the selected operation, the    *)
(*              RETCODE override, shutdown and exit                        *)
(*   SpecClocks the setClocks handler over a device list                   *)
(*   SpecOD     the handlers guarded by confirmOutOfSpecWarning            *)
(*   SpecPower  the setPowerOverDrive handler over a device list           *)
(***************************************************************************)
EXTENDS Integers, Sequences, FiniteSets, TLC

(***************************************************************************)
(* Bounds of the model.                                                    *)
(***************************************************************************)
\* devices the library can enumerate: rsmi_num_monitor_devices in 0..MaxDevices
MaxDevices == 2
\* library status codes are 0..MaxStatus, 0 being success
MaxStatus == 2
\* requested clock levels are -1..MaxLevel, and 64
MaxLevel == 3
\* a device reports 0..MaxSupported frequency levels
MaxSupported == 4
\* the power cap range of a device ends at MaxWatts watts
MaxWatts == 3
\* the default power cap of a device, in watts
DefaultWatts == 2

(***************************************************************************)
(* Program constants.                                                      *)
(***************************************************************************)
\* rsmi_status_t.RSMI_STATUS_SUCCESS ("status is 0 (success)")
RSMI_STATUS_SUCCESS == 0
\* the value RETCODE is given by a failed validation
RETCODE_ERROR == 1
\* microwatts in a watt: "int(value) * 1000000"
MICROWATTS == 1000000

Statuses == 0..MaxStatus
DevIds == 0..(MaxDevices - 1)

(***************************************************************************)
(* State.                                                                  *)
(***************************************************************************)
\* shared by every specification
VARIABLES
    pc,          \* position of the process in the code being run
    deviceList,  \* the device list operations run over
    RETCODE,     \* global RETCODE
    calls,       \* history: the library calls made so far, in order
    exitCode     \* the exit status, meaningful once pc = "exited"

\* the __main__ flow
VARIABLES
    args,        \* the parsed command line
    euid,        \* os.geteuid()
    hw,          \* what the library reports: device count, vendor ids
    relaunched,  \* the process image was replaced by sudo
    cause,       \* which exit statement ended the process
    isAmd,       \* history: device -> result of isAmdDevice in the selection
    opsStarted,  \* history: the operations that started running
    shutRet      \* status of rsmi_shut_down

\* the handlers that run over the device list
VARIABLES
    hargs,         \* the handler's arguments other than the device list
    idx,           \* position of the per-device loop in deviceList, from 1
    visited,       \* history: the devices whose iteration has started
    outcome,       \* how the handler ended, "running" until then
    confirms,      \* history: the answers given to confirmOutOfSpecWarning
    freq_bitmask,  \* setClocks: the bitmask built from the levels
    num_supported, \* setClocks: the level count most recently read
    perfLevel,     \* device -> its performance level, in lower case
    powerCap,      \* device -> its power cap, in microwatts
    specWarningConfirmed  \* setPowerOverDrive: the confirmation was given

\* the output, load/save, the JSON accumulator, and function results
VARIABLES
    stdout,      \* history: what the handlers printed, in order
    file,        \* the settings file: its device entries, in order
    entry,       \* load: position of the loop over the entries, from 1
    lstep,       \* position of an inner loop (settings, sensors), from 1
    applied,     \* history: the handlers load has called, in order
    fromSave,    \* the settings file was written by save
    JSON_DATA,   \* the JSON accumulator: the entries [card, data], in order
    queried,     \* history: the metric queries and their statuses
    result,      \* the values returned or passed on by the code under study
    pass,        \* how many times the operation has been applied
    firstLevel   \* history: device -> its level after the first pass

sharedVars == <<pc, deviceList, RETCODE, calls, exitCode>>
mainVars == <<args, euid, hw, relaunched, cause, isAmd, opsStarted, shutRet>>
loopVars == <<hargs, idx, visited, outcome, confirms>>
clockVars == <<freq_bitmask, num_supported, perfLevel>>
powerVars == <<powerCap, specWarningConfirmed>>
lateVars == <<file, entry, lstep, applied, fromSave, JSON_DATA, queried,
             result, pass, firstLevel>>
handlerVars == <<loopVars, clockVars, powerVars, stdout, lateVars>>

(***************************************************************************)
(* Helpers.                                                                *)
(***************************************************************************)
Range(s) == {s[i] : i \in 1..Len(s)}

NoDuplicates(s) == \A i, j \in 1..Len(s) : s[i] = s[j] => i = j

\* list(range(n))
RangeList(n) == [i \in 1..n |-> i - 1]

\* the library call records of the history
Call(fn, dev, ret) == [fn |-> fn, dev |-> dev, ret |-> ret]

\* a plausible slip: the status of a checked call is never looked at
rsmi_ret_ok_always(my_ret) == TRUE

(***************************************************************************)
(* rsmi_ret_ok: true on success; a non-success status is stored in RETCODE.*)
(***************************************************************************)
rsmi_ret_ok(my_ret) == my_ret = RSMI_STATUS_SUCCESS

\* the value of RETCODE after rsmi_ret_ok(my_ret)
rsmi_ret_ok_RETCODE(retcode, my_ret) ==
    IF my_ret # RSMI_STATUS_SUCCESS THEN my_ret ELSE retcode

\* RETCODE after the checked calls of a sequence of statuses
RECURSIVE RetcodeAfter(_, _)
RetcodeAfter(retcode, rets) ==
    IF rets = <<>> THEN retcode
    ELSE RetcodeAfter(rsmi_ret_ok_RETCODE(retcode, Head(rets)), Tail(rets))

(***************************************************************************)
(* hex(): Python's hexadecimal rendering of a non-negative integer, as a   *)
(* sequence of characters.                                                 *)
(***************************************************************************)
HexDigits == <<"0", "1", "2", "3", "4", "5", "6", "7",
               "8", "9", "a", "b", "c", "d", "e", "f">>

RECURSIVE HexStr(_)
HexStr(n) ==
    IF n < 16 THEN <<HexDigits[n + 1]>>
    ELSE HexStr(n \div 16) \o <<HexDigits[(n % 16) + 1]>>

hex(n) == <<"0", "x">> \o HexStr(n)

\* the literal '0x1002' of isAmdDevice
AMD_VENDOR_HEX == <<"0", "x", "1", "0", "0", "2">>

\* vendor ids the library may report: AMD (0x1002), 0x1234, and 0x102
VendorIdSet == {4098, 4660, 258}

\* outcomes of rsmi_dev_vendor_id_get: a success with any id, or a failure
\* that leaves any id in the c_uint16 buffer
VendorResults ==
    {[ret |-> RSMI_STATUS_SUCCESS, id |-> v] : v \in VendorIdSet}
      \cup {[ret |-> MaxStatus, id |-> 4098]}

\* a plausible slip: the status of the vendor query is not looked at
isAmdDevice_ignoring_status(device) ==
    hex(hw.vendor[device].id % 65536) = AMD_VENDOR_HEX

isAmdDevice(device) ==
    /\ hw.vendor[device].ret = RSMI_STATUS_SUCCESS
    /\ hex(hw.vendor[device].id % 65536) = AMD_VENDOR_HEX

(***************************************************************************)
(* The command line.  One operation flag is selected per run ("concise" is *)
(* the run without flags, which shows the concise table).  args.device is  *)
(* the -d list; <<>> stands for None (argparse's nargs='+' never yields an *)
(* empty list).                                                            *)
(***************************************************************************)
\* the flags of the condition that guards relaunchAsSudo
RelaunchFlags ==
    {"setsclk", "setmclk", "setpcie", "resetfans", "setfan", "setperflevel",
     "load", "resetclocks", "setprofile", "resetprofile", "setoverdrive",
     "setmemoverdrive", "setpoweroverdrive", "resetpoweroverdrive",
     "rasenable", "rasdisable", "rasinject", "gpureset", "setperfdeterminism",
     "setslevel", "setmlevel", "setvc", "setsrange", "setextremum",
     "setmrange", "setclock", "setcomputepartition", "setmemorypartition",
     "resetcomputepartition", "resetmemorypartition"}

\* the set, reset, RAS, GPU-reset and load flags the parser defines
ActionFlags ==
    RelaunchFlags \cup {"resetxgmierr", "resetperfdeterminism"}

QueryFlags == {"concise", "showtemp", "save"}

AllFlags == ActionFlags \cup QueryFlags \cup {"version"}

NeedsRelaunch(flag) == flag \in RelaunchFlags

\* the write the handler dispatched for a flag issues for a device: a
\* library set/reset call, or a write to a sysfs file; "none" for a query
WriteCall(flag) ==
    CASE flag \in {"setclock", "setsclk", "setmclk"} -> "rsmi_dev_gpu_clk_freq_set"
      [] flag = "setpcie" -> "rsmi_dev_pci_bandwidth_set"
      [] flag \in {"setslevel", "setmlevel"} -> "rsmi_dev_od_clk_info_set"
      [] flag = "resetfans" -> "rsmi_dev_fan_reset"
      [] flag \in {"setfan", "load"} -> "rsmi_dev_fan_speed_set"
      [] flag \in {"setperflevel", "resetperfdeterminism"} -> "rsmi_dev_perf_level_set"
      [] flag \in {"setoverdrive", "resetclocks"} -> "rsmi_dev_overdrive_level_set"
      [] flag = "setmemoverdrive" -> "write pp_mclk_od"
      [] flag \in {"setpoweroverdrive", "resetpoweroverdrive"} -> "rsmi_dev_power_cap_set"
      [] flag \in {"setprofile", "resetprofile"} -> "rsmi_dev_power_profile_set"
      [] flag = "setvc" -> "rsmi_dev_od_volt_info_set"
      [] flag = "setextremum" -> "rsmi_dev_clk_extremum_set"
      [] flag \in {"setsrange", "setmrange"} -> "rsmi_dev_clk_range_set"
      [] flag = "setperfdeterminism" -> "rsmi_perf_determinism_mode_set"
      [] flag = "setcomputepartition" -> "rsmi_dev_compute_partition_set"
      [] flag = "setmemorypartition" -> "rsmi_dev_memory_partition_set"
      [] flag = "resetxgmierr" -> "rsmi_dev_xgmi_error_reset"
      [] flag = "resetcomputepartition" -> "rsmi_dev_compute_partition_reset"
      [] flag = "resetmemorypartition" -> "rsmi_dev_memory_partition_reset"
      [] flag \in {"rasenable", "rasdisable", "rasinject"} -> "write ras_ctrl"
      [] flag = "gpureset" -> "rsmi_dev_gpu_reset"
      [] OTHER -> "none"

\* the calls that change device or driver state
WriteCalls == {WriteCall(f) : f \in ActionFlags}

\* the per-device call of the handler dispatched for a flag
LibCall(flag) ==
    IF WriteCall(flag) # "none" THEN WriteCall(flag)
    ELSE IF flag = "showtemp" THEN "rsmi_dev_temp_metric_get"
    ELSE IF flag = "save" THEN "rsmi_dev_gpu_clk_freq_get"
    ELSE "rsmi_dev_id_get"

LogLevels == {"None", "debug", "info", "warning", "error", "critical", "bogus"}

\* getattr(logging, loglevel.upper(), logging.WARNING)
LogLevelValue(loglevel) ==
    CASE loglevel = "debug" -> 10
      [] loglevel = "info" -> 20
      [] loglevel = "warning" -> 30
      [] loglevel = "error" -> 40
      [] loglevel = "critical" -> 50
      [] OTHER -> 30

\* a plausible slip: the override applies at or above WARNING
RetcodeOverride_at_or_above(loglevel, retcode) ==
    IF loglevel = "None" \/ LogLevelValue(loglevel) >= LogLevelValue("warning")
    THEN 0 ELSE retcode

\* RETCODE after "Set RETCODE value to 0, unless ..." at the end of __main__
RetcodeOverride(loglevel, retcode) ==
    IF loglevel = "None" \/ LogLevelValue(loglevel) = LogLevelValue("warning")
    THEN 0 ELSE retcode

\* args.device: None, or a list of one or two requested devices
DeviceArgs ==
    {<<>>} \cup {<<a>> : a \in DevIds} \cup {<<a, b>> : a, b \in DevIds}

\* a plausible slip: the vendor filter is dropped from the selection loop
RECURSIVE SelectedDevices_unfiltered(_, _, _)
SelectedDevices_unfiltered(requested, alldevices, acc) ==
    IF requested = <<>> THEN acc
    ELSE SelectedDevices_unfiltered(Tail(requested), alldevices,
             IF Head(requested) \notin Range(acc)
             THEN Append(acc, Head(requested)) ELSE acc)

\* the loop over args.device: a device is appended when it is an AMD
\* device (or --alldevices is given) and is not in the list yet
RECURSIVE SelectedDevices(_, _, _)
SelectedDevices(requested, alldevices, acc) ==
    IF requested = <<>> THEN acc
    ELSE SelectedDevices(Tail(requested), alldevices,
             IF (isAmdDevice(Head(requested)) \/ alldevices)
                  /\ Head(requested) \notin Range(acc)
             THEN Append(acc, Head(requested)) ELSE acc)

\* listDevices() on success
DefaultDevices(n) == RangeList(n)

(***************************************************************************)
(* Initial states of the __main__ flow: any hardware and any -d list with  *)
(* a few operations, or any operation, privilege and log level with two    *)
(* AMD devices.                                                            *)
(***************************************************************************)
SetupFlags == {"concise", "version", "setfan", "gpureset"}

HealthyHw ==
    [numDevices |-> MaxDevices,
     vendor |-> [d \in DevIds |-> [ret |-> RSMI_STATUS_SUCCESS, id |-> 4098]]]

MainStart ==
    /\ pc = "start"
    /\ deviceList = <<>>
    /\ RETCODE = 0
    /\ calls = <<>>
    /\ exitCode = 0
    /\ relaunched = FALSE
    /\ cause = "running"
    /\ isAmd = <<>>
    /\ opsStarted = <<>>
    /\ shutRet = RSMI_STATUS_SUCCESS

\* no settings file, no JSON accumulator, no function under study
LateIdle ==
    /\ file = <<>>
    /\ entry = 0
    /\ lstep = 0
    /\ applied = <<>>
    /\ fromSave = FALSE
    /\ JSON_DATA = <<>>
    /\ queried = <<>>
    /\ result = <<>>
    /\ pass = 0
    /\ firstLevel = <<>>

\* no handler of the specifications below is running
HandlerIdle ==
    /\ hargs = <<>>
    /\ idx = 0
    /\ visited = <<>>
    /\ outcome = "none"
    /\ confirms = <<>>
    /\ freq_bitmask = 0
    /\ num_supported = 0
    /\ perfLevel = <<>>
    /\ powerCap = <<>>
    /\ specWarningConfirmed = FALSE
    /\ stdout = <<>>
    /\ LateIdle

MainInputs ==
    \/ /\ args \in [flag : SetupFlags, device : DeviceArgs,
                    alldevices : BOOLEAN, loglevel : {"None"}]
       /\ euid \in {0, 1000}
       /\ hw \in [numDevices : 0..MaxDevices, vendor : [DevIds -> VendorResults]]
    \/ /\ args \in [flag : AllFlags, device : {<<>>},
                    alldevices : {FALSE}, loglevel : LogLevels]
       /\ euid \in {0, 1000}
       /\ hw = HealthyHw

\* exit(status) / sys.exit(status)
Exit(status, why) ==
    /\ pc' = "exited"
    /\ exitCode' = status
    /\ cause' = why

(***************************************************************************)
(* initializeRsmi(), and the --version exit that follows it.               *)
(***************************************************************************)
InitializeRsmi ==
    /\ pc = "start"
    /\ \E driver \in BOOLEAN, ret_init \in Statuses :
         IF ~driver THEN Exit(0, "driver_not_initialized")
         ELSE IF ret_init # 0 THEN Exit(ret_init, "rsmi_init")
         ELSE IF args.flag = "version" THEN Exit(0, "version")
         ELSE pc' = "relaunch" /\ UNCHANGED <<exitCode, cause>>
    /\ UNCHANGED <<deviceList, RETCODE, calls>>
    /\ UNCHANGED <<args, euid, hw, relaunched, isAmd, opsStarted, shutRet>>
    /\ UNCHANGED handlerVars

(***************************************************************************)
(* The relaunch condition and relaunchAsSudo(): os.execvp replaces the     *)
(* process image by sudo, which runs the script again as root or fails.    *)
(***************************************************************************)
Relaunch ==
    /\ pc = "relaunch"
    /\ IF NeedsRelaunch(args.flag) /\ euid # 0
       THEN \E granted \in BOOLEAN :
              IF granted
              THEN /\ pc' = "start"
                   /\ euid' = 0
                   /\ relaunched' = TRUE
                   /\ UNCHANGED <<exitCode, cause>>
              ELSE /\ Exit(1, "sudo")
                   /\ UNCHANGED <<euid, relaunched>>
       ELSE /\ pc' = "select"
            /\ UNCHANGED <<euid, relaunched, exitCode, cause>>
    /\ UNCHANGED <<deviceList, RETCODE, calls>>
    /\ UNCHANGED <<args, hw, isAmd, opsStarted, shutRet>>
    /\ UNCHANGED handlerVars

(***************************************************************************)
(* The device list selection.  doesDeviceExist(d) holds when d is in       *)
(* listDevices() or its debugfs directory exists; listDevices() exits with *)
(* the status of a failed device count query.  The test "deviceList is     *)
(* None" that follows never holds: the list is a (possibly empty) list.    *)
(***************************************************************************)
SelectDevices ==
    /\ pc = "select"
    /\ \E listRet \in Statuses, debugfs \in SUBSET DevIds :
         LET exists(d) == d \in Range(RangeList(hw.numDevices)) \/ d \in debugfs
         IN  IF ~rsmi_ret_ok(listRet)
             THEN /\ Exit(listRet, "listDevices")
                  /\ RETCODE' = rsmi_ret_ok_RETCODE(RETCODE, listRet)
                  /\ UNCHANGED <<deviceList, isAmd>>
             ELSE IF args.device # <<>>
             THEN IF \E d \in Range(args.device) : ~exists(d)
                  THEN /\ Exit(0, "no_such_device")
                       /\ UNCHANGED <<deviceList, isAmd, RETCODE>>
                  ELSE /\ deviceList' =
                            SelectedDevices(args.device, args.alldevices, <<>>)
                       /\ isAmd' = [d \in Range(args.device) |-> isAmdDevice(d)]
                       /\ pc' = "dispatch"
                       /\ UNCHANGED <<RETCODE, exitCode, cause>>
             ELSE /\ deviceList' = DefaultDevices(hw.numDevices)
                  /\ pc' = "dispatch"
                  /\ UNCHANGED <<isAmd, RETCODE, exitCode, cause>>
    /\ UNCHANGED calls
    /\ UNCHANGED <<args, euid, hw, relaunched, opsStarted, shutRet>>
    /\ UNCHANGED handlerVars

(***************************************************************************)
(* --gpureset: resetGpu(args.device), then sys.exit(RETCODE); nothing else *)
(* is dispatched.                                                          *)
(***************************************************************************)
GpuReset ==
    /\ pc = "dispatch"
    /\ args.flag = "gpureset"
    /\ IF args.device = <<>>
       THEN /\ Exit(1, "gpureset_no_device")
            /\ UNCHANGED <<RETCODE, calls, opsStarted>>
       ELSE /\ opsStarted' = Append(opsStarted, "gpureset")
            /\ IF Len(args.device) > 1 \/ ~isAmdDevice(args.device[1])
               THEN /\ RETCODE' = RETCODE_ERROR
                    /\ UNCHANGED calls
               ELSE \E ret \in Statuses :
                      /\ calls' = Append(calls,
                             Call("rsmi_dev_gpu_reset", args.device[1], ret))
                      /\ RETCODE' = rsmi_ret_ok_RETCODE(RETCODE, ret)
            /\ Exit(RETCODE', "gpureset")
    /\ UNCHANGED deviceList
    /\ UNCHANGED <<args, euid, hw, relaunched, isAmd, shutRet>>
    /\ UNCHANGED handlerVars

(***************************************************************************)
(* The dispatch of the selected operation.  checkAmdGpus only logs a       *)
(* warning.  The handler runs over the device list and checks the status   *)
(* of its call for each device with rsmi_ret_ok.                           *)
(***************************************************************************)
RunOperation ==
    /\ pc = "dispatch"
    /\ args.flag # "gpureset"
    /\ opsStarted' = Append(opsStarted, args.flag)
    /\ \E rets \in [1..Len(deviceList) -> Statuses] :
         /\ calls' = calls \o [i \in 1..Len(deviceList) |->
                                 Call(LibCall(args.flag), deviceList[i], rets[i])]
         /\ RETCODE' = RetcodeAfter(RETCODE, rets)
    /\ pc' = "final"
    /\ UNCHANGED <<deviceList, exitCode>>
    /\ UNCHANGED <<args, euid, hw, relaunched, cause, isAmd, shutRet>>
    /\ UNCHANGED handlerVars

(***************************************************************************)
(* The end of __main__: the RETCODE override, rsmi_shut_down() checked by  *)
(* rsmi_ret_ok, and exit(RETCODE).                                         *)
(***************************************************************************)
Finish ==
    /\ pc = "final"
    /\ \E ret \in Statuses :
         /\ shutRet' = ret
         /\ RETCODE' = rsmi_ret_ok_RETCODE(
                           RetcodeOverride(args.loglevel, RETCODE), ret)
    /\ Exit(RETCODE', "final")
    /\ UNCHANGED <<deviceList, calls>>
    /\ UNCHANGED <<args, euid, hw, relaunched, isAmd, opsStarted>>
    /\ UNCHANGED handlerVars

MainNext ==
    \/ InitializeRsmi
    \/ Relaunch
    \/ SelectDevices
    \/ GpuReset
    \/ RunOperation
    \/ Finish

vars == <<sharedVars, mainVars, handlerVars>>

Init == MainStart /\ MainInputs /\ HandlerIdle

Next == MainNext

Spec == Init /\ [][Next]_vars

(***************************************************************************)
(* What the handler specifications share.  A handler is entered with a     *)
(* device list as the selection leaves it: the selected devices in         *)
(* ascending order of their ids.  In these specifications the history      *)
(* "calls" holds the set calls of the library and the frequency queries    *)
(* that precede them.                                                      *)
(***************************************************************************)
RECURSIVE SortedList(_)
SortedList(S) ==
    IF S = {} THEN <<>>
    ELSE LET m == CHOOSE x \in S : \A y \in S : x <= y
         IN  <<m>> \o SortedList(S \ {m})

HandlerDeviceLists == {SortedList(S) : S \in SUBSET DevIds}

\* the __main__ flow is not part of a handler specification
MainIdle ==
    /\ args = <<>>
    /\ euid = 0
    /\ hw = HealthyHw
    /\ relaunched = FALSE
    /\ cause = "running"
    /\ isAmd = <<>>
    /\ opsStarted = <<>>
    /\ shutRet = RSMI_STATUS_SUCCESS

\* the state in which a handler is entered at position start
HandlerStart(start) ==
    /\ pc = start
    /\ deviceList \in HandlerDeviceLists
    /\ RETCODE = 0
    /\ calls = <<>>
    /\ exitCode = 0
    /\ idx = 0
    /\ visited = <<>>
    /\ outcome = "running"
    /\ confirms = <<>>

\* "return" from a handler
Return(kind) ==
    /\ pc' = "returned"
    /\ outcome' = kind

Last(s) == s[Len(s)]

(***************************************************************************)
(* setClocks(deviceList, clktype, clk).                                    *)
(***************************************************************************)
\* clk_type_names[1:-2] with 'pcie' appended
validClockNames == {"dcefclk", "fclk", "mclk", "pcie", "sclk", "socclk"}

\* a level as argparse's type=int yields it
Levels == (-1..MaxLevel) \cup {64}

\* mask | (1 << bit), for bit >= 0
BitOr(mask, bit) ==
    IF (mask \div (2 ^ bit)) % 2 = 1 THEN mask ELSE mask + 2 ^ bit

\* the loop "for bit in clk": a level above 63 ends the handler, a negative
\* level makes 1 << bit raise ValueError, any other level is or-ed in
RECURSIVE BuildBitmask(_, _)
BuildBitmask(clk, mask) ==
    IF clk = <<>> THEN [status |-> "ok", mask |-> mask]
    ELSE IF Head(clk) > 63 THEN [status |-> "invalid", mask |-> mask]
    ELSE IF Head(clk) < 0 THEN [status |-> "raise", mask |-> mask]
    ELSE BuildBitmask(Tail(clk), BitOr(mask, Head(clk)))

\* a plausible slip: the bitmask 2^num_supported is let through
BitmaskRejected_above(mask, supported) == mask > 2 ^ supported

\* freq_bitmask >= (1 << freq.num_supported)
BitmaskRejected(mask, supported) == mask >= 2 ^ supported

\* the query and the set call of a clock type
FreqGet(clktype) ==
    IF clktype # "pcie" THEN "rsmi_dev_gpu_clk_freq_get"
    ELSE "rsmi_dev_pci_bandwidth_get"

FreqSet(clktype) ==
    IF clktype # "pcie" THEN "rsmi_dev_gpu_clk_freq_set"
    ELSE "rsmi_dev_pci_bandwidth_set"

ClocksInit ==
    /\ HandlerStart("setClocks")
    /\ MainIdle
    /\ stdout = <<>>
    /\ LateIdle
    /\ hargs \in [clktype : {"sclk", "pcie", "bogus"},
                  clk : {<<>>} \cup {<<a>> : a \in Levels}
                          \cup {<<a, b>> : a, b \in Levels}]
    /\ freq_bitmask = 0
    /\ num_supported = 0
    /\ perfLevel \in [DevIds -> {"auto", "manual"}]
    /\ powerCap = <<>>
    /\ specWarningConfirmed = FALSE

\* the argument checks and the construction of the bitmask
SetClocksBegin ==
    /\ pc = "setClocks"
    /\ LET built == BuildBitmask(hargs.clk, 0)
       IN  IF hargs.clk = <<>> \/ hargs.clktype \notin validClockNames
           THEN /\ Return("invalid_args")
                /\ RETCODE' = RETCODE_ERROR
                /\ UNCHANGED <<freq_bitmask, idx, exitCode, cause>>
           ELSE IF built.status = "invalid"
           THEN /\ Return("invalid_level")
                /\ RETCODE' = RETCODE_ERROR
                /\ UNCHANGED <<freq_bitmask, idx, exitCode, cause>>
           ELSE IF built.status = "raise"
           THEN /\ Exit(1, "uncaught ValueError")
                /\ outcome' = "raised"
                /\ UNCHANGED <<freq_bitmask, idx, RETCODE>>
           ELSE /\ freq_bitmask' = built.mask
                /\ idx' = 1
                /\ pc' = "setClocks_loop"
                /\ UNCHANGED <<outcome, RETCODE, exitCode, cause>>
    /\ UNCHANGED <<deviceList, calls, hargs, visited, confirms>>
    /\ UNCHANGED <<num_supported, perfLevel, powerVars>>
    /\ UNCHANGED <<args, euid, hw, relaunched, isAmd, opsStarted, shutRet>>
    /\ UNCHANGED <<stdout, lateVars>>

\* the second half of an iteration: the query of the level count, the
\* check of the bitmask against it, and the set call
SetClocksFrequency(device, rc1, calls1) ==
    \E getRet \in Statuses :
      LET calls2 == Append(calls1, Call(FreqGet(hargs.clktype), device, getRet))
      IN  IF ~rsmi_ret_ok(getRet)
          THEN /\ calls' = calls2
               /\ RETCODE' = RETCODE_ERROR
               /\ Return("freq_get_failed")
               /\ UNCHANGED <<idx, num_supported>>
          ELSE \E supported \in 0..MaxSupported :
                 /\ num_supported' = supported
                 /\ IF BitmaskRejected(freq_bitmask, supported)
                    THEN /\ calls' = calls2
                         /\ RETCODE' = RETCODE_ERROR
                         /\ Return("invalid_bitmask")
                         /\ UNCHANGED idx
                    ELSE \E setRet \in Statuses :
                           /\ calls' = Append(calls2,
                                  Call(FreqSet(hargs.clktype), device, setRet))
                           /\ RETCODE' = IF rsmi_ret_ok(setRet) THEN rc1
                                         ELSE RETCODE_ERROR
                           /\ idx' = idx + 1
                           /\ UNCHANGED <<pc, outcome>>

\* one iteration of "for device in deviceList": the device is switched to
\* the manual performance level when getPerfLevel(device).lower() is not
\* 'manual' ('n/a' when the query fails), then the frequency is set
SetClocksDevice ==
    /\ pc = "setClocks_loop"
    /\ idx <= Len(deviceList)
    /\ visited' = Append(visited, deviceList[idx])
    /\ \E perfRet \in Statuses :
         LET device == deviceList[idx]
             level == IF rsmi_ret_ok(perfRet) THEN perfLevel[device] ELSE "n/a"
             rc1 == rsmi_ret_ok_RETCODE(RETCODE, perfRet)
         IN  IF level = "manual"
             THEN /\ SetClocksFrequency(device, rc1, calls)
                  /\ UNCHANGED perfLevel
             ELSE \E manualRet \in Statuses :
                    LET calls1 == Append(calls,
                            Call("rsmi_dev_perf_level_set", device, manualRet))
                    IN  IF ~rsmi_ret_ok(manualRet)
                        THEN /\ calls' = calls1
                             /\ RETCODE' = RETCODE_ERROR
                             /\ Return("perf_level_failed")
                             /\ UNCHANGED <<idx, perfLevel, num_supported>>
                        ELSE /\ perfLevel' = [perfLevel EXCEPT ![device] = "manual"]
                             /\ SetClocksFrequency(device, rc1, calls1)
    /\ UNCHANGED <<deviceList, exitCode, hargs, confirms, freq_bitmask, powerVars>>
    /\ UNCHANGED mainVars
    /\ UNCHANGED <<stdout, lateVars>>

\* the loop is exhausted: printLogSpacer() and the end of the handler
SetClocksEnd ==
    /\ pc = "setClocks_loop"
    /\ idx > Len(deviceList)
    /\ Return("done")
    /\ UNCHANGED <<deviceList, RETCODE, calls, exitCode>>
    /\ UNCHANGED <<hargs, idx, visited, confirms, clockVars, powerVars>>
    /\ UNCHANGED mainVars
    /\ UNCHANGED <<stdout, lateVars>>

ClocksNext ==
    \/ SetClocksBegin
    \/ SetClocksDevice
    \/ SetClocksEnd

SpecClocks == ClocksInit /\ [][ClocksNext]_vars

(***************************************************************************)
(* int(): the conversion of a command-line string, a sequence of           *)
(* characters here, to an integer.  The strings of the model are an        *)
(* optional sign followed by decimal digits, or not integers at all.       *)
(***************************************************************************)
Digits == <<"0", "1", "2", "3", "4", "5", "6", "7", "8", "9">>

DigitChars == Range(Digits)

DigitVal(c) == (CHOOSE i \in 1..10 : Digits[i] = c) - 1

\* int(s) does not raise ValueError
IsInt(s) ==
    LET body == IF s # <<>> /\ Head(s) \in {"-", "+"} THEN Tail(s) ELSE s
    IN  body # <<>> /\ \A i \in 1..Len(body) : body[i] \in DigitChars

RECURSIVE DecVal(_)
DecVal(s) ==
    IF s = <<>> THEN 0
    ELSE 10 * DecVal(SubSeq(s, 1, Len(s) - 1)) + DigitVal(Last(s))

\* int(s), for a string with IsInt(s)
IntVal(s) ==
    IF Head(s) = "-" THEN 0 - DecVal(Tail(s))
    ELSE IF Head(s) = "+" THEN DecVal(Tail(s))
    ELSE DecVal(s)

\* any(int(item) for item in value.split()): the items are converted in
\* order until one is non-zero; an empty item is dropped by split()
RECURSIVE AnyIntRaises(_)
AnyIntRaises(items) ==
    IF items = <<>> THEN FALSE
    ELSE IF Head(items) = <<>> THEN AnyIntRaises(Tail(items))
    ELSE IF ~IsInt(Head(items)) THEN TRUE
    ELSE IF IntVal(Head(items)) # 0 THEN FALSE
    ELSE AnyIntRaises(Tail(items))

\* the strings given for a number on the command line
ValueStrings ==
    {<<"0">>, <<"5">>, <<"2", "5">>, <<"-", "1">>, <<"x">>, <<>>}

ShortValues == {<<"5">>, <<"x">>}

(***************************************************************************)
(* confirmOutOfSpecWarning(autoRespond): the answer is read from the       *)
(* terminal when autoRespond is empty or None ("" here).                   *)
(***************************************************************************)
\* what the user may type
Answers == {"y", "Y", "yes", "Yes", "YES", "n", "yES", ""}

AutoResponds == {"", "y", "YES", "n"}

\* a plausible slip: any non-empty answer is taken for a confirmation
Affirmative_nonempty(user_input) == user_input # ""

Affirmative(user_input) == user_input \in {"Yes", "yes", "y", "Y", "YES"}

UserInput(autoRespond, typed) == IF autoRespond = "" THEN typed ELSE autoRespond

\* an uncaught exception ends the process with a traceback and status 1
Raise(exception) ==
    /\ Exit(1, exception)
    /\ outcome' = "raised"

(***************************************************************************)
(* The handlers that ask for the confirmation before their loop:           *)
(* setClockOverDrive, setClockRange, setClockExtremum, setVoltageCurve and *)
(* setPowerPlayTableLevel.  hargs.values are the numeric arguments, as the *)
(* strings of the command line.                                            *)
(***************************************************************************)
ClkTypes == {"sclk", "mclk", "bogus"}

ODArgs ==
    [handler : {"setClockOverDrive"}, clkType : ClkTypes, level : {"min"},
     values : {<<v>> : v \in ValueStrings}, autoRespond : AutoResponds]
    \cup
    [handler : {"setClockRange"}, clkType : ClkTypes, level : {"min"},
     values : {<<v, w>> : v \in ValueStrings, w \in ShortValues},
     autoRespond : AutoResponds]
    \cup
    [handler : {"setClockExtremum"}, clkType : ClkTypes,
     level : {"min", "max", "bogus"},
     values : {<<v>> : v \in ValueStrings}, autoRespond : AutoResponds]
    \cup
    [handler : {"setVoltageCurve"}, clkType : {"sclk"}, level : {"min"},
     values : {<<p, c, v>> : p \in ValueStrings, c \in ShortValues,
                             v \in ShortValues},
     autoRespond : AutoResponds]
    \cup
    [handler : {"setPowerPlayTableLevel"}, clkType : ClkTypes, level : {"min"},
     values : {<<p, c, v>> : p \in ValueStrings, c \in ShortValues,
                             v \in ShortValues},
     autoRespond : AutoResponds]

ODInit ==
    /\ HandlerStart("validate")
    /\ MainIdle
    /\ stdout = <<>>
    /\ LateIdle
    /\ hargs \in ODArgs
    /\ freq_bitmask = 0
    /\ num_supported = 0
    /\ perfLevel = <<>>
    /\ powerCap = <<>>
    /\ specWarningConfirmed = FALSE

\* the argument checks of the handler reject the arguments
ODInvalidArgs(a) ==
    CASE a.handler = "setClockOverDrive" -> ~IsInt(a.values[1])
      [] a.handler = "setClockRange" ->
           \/ a.clkType \notin {"sclk", "mclk"}
           \/ ~IsInt(a.values[1])
           \/ ~IsInt(a.values[2])
      [] a.handler = "setClockExtremum" ->
           \/ a.level \notin {"min", "max"}
           \/ a.clkType \notin {"sclk", "mclk"}
           \/ ~IsInt(a.values[1])
      [] OTHER -> AnyIntRaises(a.values)

\* the checks before the confirmation: RETCODE = 1 and return on a failure
ODValidate ==
    /\ pc = "validate"
    /\ IF ODInvalidArgs(hargs)
       THEN /\ Return("invalid_args")
            /\ RETCODE' = RETCODE_ERROR
       ELSE /\ pc' = "confirm"
            /\ UNCHANGED <<outcome, RETCODE>>
    /\ UNCHANGED <<deviceList, calls, exitCode>>
    /\ UNCHANGED <<hargs, idx, visited, confirms, clockVars, powerVars>>
    /\ UNCHANGED mainVars
    /\ UNCHANGED <<stdout, lateVars>>

\* confirmOutOfSpecWarning(autoRespond), called before the loop
ConfirmOutOfSpecWarning ==
    /\ pc = "confirm"
    /\ \E typed \in Answers :
         LET user_input == UserInput(hargs.autoRespond, typed)
         IN  /\ confirms' = Append(confirms, user_input)
             /\ IF Affirmative(user_input)
                THEN /\ pc' = "loop"
                     /\ idx' = 1
                     /\ UNCHANGED <<outcome, exitCode, cause>>
                ELSE /\ Exit(1, "confirmation_declined")
                     /\ outcome' = "declined"
                     /\ UNCHANGED idx
    /\ UNCHANGED <<deviceList, RETCODE, calls>>
    /\ UNCHANGED <<hargs, visited, clockVars, powerVars>>
    /\ UNCHANGED <<args, euid, hw, relaunched, isAmd, opsStarted, shutRet>>
    /\ UNCHANGED <<stdout, lateVars>>

\* the loop of handler h is at a device
ODAtDevice(h) ==
    /\ pc = "loop"
    /\ hargs.handler = h
    /\ idx <= Len(deviceList)

\* what an iteration leaves alone
ODFrame ==
    /\ visited' = Append(visited, deviceList[idx])
    /\ UNCHANGED <<deviceList, confirms, clockVars, powerVars>>
    /\ UNCHANGED <<args, euid, hw, relaunched, isAmd, opsStarted, shutRet>>
    /\ UNCHANGED <<file, entry, lstep, applied, fromSave, JSON_DATA, queried, pass, firstLevel>>

\* the iteration made the set call fn, which returned ret; a failure
\* leaves errcode in RETCODE
ODSetCall(fn, ret, errcode) ==
    /\ calls' = Append(calls, Call(fn, deviceList[idx], ret))
    /\ RETCODE' = IF rsmi_ret_ok(ret) THEN RETCODE ELSE errcode
    /\ idx' = idx + 1
    /\ UNCHANGED <<pc, outcome, exitCode, cause, hargs>>

\* the iteration made no call and left retcode in RETCODE
ODNoCall(retcode) ==
    /\ RETCODE' = retcode
    /\ idx' = idx + 1
    /\ UNCHANGED <<calls, pc, outcome, exitCode, cause, hargs>>

SetClockRangeDevice ==
    /\ ODAtDevice("setClockRange")
    /\ \E ret \in Statuses : ODSetCall("rsmi_dev_clk_range_set", ret, RETCODE_ERROR)
    /\ ODFrame
    /\ UNCHANGED <<stdout, result>>

SetClockExtremumDevice ==
    /\ ODAtDevice("setClockExtremum")
    /\ \E ret \in Statuses : ODSetCall("rsmi_dev_clk_extremum_set", ret, RETCODE_ERROR)
    /\ ODFrame
    /\ UNCHANGED <<stdout, result>>

\* int(point), int(clk) and int(volt) are evaluated for the call
SetVoltageCurveDevice ==
    /\ ODAtDevice("setVoltageCurve")
    /\ IF \E i \in 1..3 : ~IsInt(hargs.values[i])
       THEN /\ Raise("uncaught ValueError")
            /\ UNCHANGED <<calls, RETCODE, idx, hargs>>
       ELSE \E ret \in Statuses :
              ODSetCall("rsmi_dev_od_volt_info_set", ret, RETCODE_ERROR)
    /\ ODFrame
    /\ UNCHANGED <<stdout, result>>

\* int(point) and int(clk) are evaluated for the call
SetPowerPlayTableLevelDevice ==
    /\ ODAtDevice("setPowerPlayTableLevel")
    /\ IF hargs.clkType \notin {"sclk", "mclk"}
       THEN ODNoCall(RETCODE_ERROR)
       ELSE IF \E i \in 1..2 : ~IsInt(hargs.values[i])
       THEN /\ Raise("uncaught ValueError")
            /\ UNCHANGED <<calls, RETCODE, idx, hargs>>
       ELSE \E ret \in Statuses :
              ODSetCall("rsmi_dev_od_clk_info_set", ret, RETCODE_ERROR)
    /\ ODFrame
    /\ UNCHANGED <<stdout, result>>

\* the characters of a command-line value as one string
RECURSIVE Text(_)
Text(s) == IF s = <<>> THEN "" ELSE Head(s) \o Text(Tail(s))

\* a plausible slip: a value above 20 is passed on as it is
ClampedOverDrive_unclamped(value) == value

\* "if int(value) > 20: ... value = '20'"
ClampedOverDrive(value) == IF IntVal(value) > 20 THEN <<"2", "0">> ELSE value

\* the second half of an iteration: pp_mclk_od is written (mclk) or the
\* overdrive level is set (sclk) with value; out1 are the lines printed so
\* far.  The message about the sysfs file names the file of the card.
SetOverDriveLevel(device, rc2, calls1, value, out1) ==
    LET setTo == hargs.clkType \o " OverDrive to " \o Text(value) \o "%"
    IN  CASE hargs.clkType = "mclk" ->
               \E isFile, written \in BOOLEAN :
                 IF ~isFile
                 THEN /\ calls' = calls1
                      /\ RETCODE' = rc2
                      /\ stdout' = Append(out1, <<device, "Unable to write to sysfs file, file does not exist">>)
                      /\ UNCHANGED result
                 ELSE IF ~written
                 THEN /\ calls' = calls1
                      /\ RETCODE' = RETCODE_ERROR
                      /\ stdout' = Append(out1, <<device, "Unable to write to sysfs file">>)
                      /\ UNCHANGED result
                 ELSE /\ calls' = Append(calls1,
                            Call("write pp_mclk_od", device, RSMI_STATUS_SUCCESS))
                      /\ RETCODE' = rc2
                      /\ result' = Append(result, <<device, IntVal(value)>>)
                      /\ stdout' = Append(out1, <<device, "Successfully set " \o setTo>>)
          [] hargs.clkType = "sclk" ->
               \E ret \in Statuses :
                 /\ calls' = Append(calls1,
                        Call("rsmi_dev_overdrive_level_set", device, ret))
                 /\ RETCODE' = rsmi_ret_ok_RETCODE(rc2, ret)
                 /\ result' = Append(result, <<device, IntVal(value)>>)
                 /\ stdout' = Append(out1,
                        <<device, (IF rsmi_ret_ok(ret) THEN "Successfully set "
                                   ELSE "Unable to set ") \o setTo>>)
          [] OTHER ->
               /\ calls' = calls1
               /\ RETCODE' = RETCODE_ERROR
               /\ stdout' = Append(out1, <<device, "Unable to set OverDrive">>)
               /\ UNCHANGED result

\* a negative value ends the handler; a value above 20 becomes '20'; the
\* device is switched to the manual performance level when getPerfLevel
\* does not answer 'MANUAL'; then the overdrive level is set
SetClockOverDriveDevice ==
    /\ ODAtDevice("setClockOverDrive")
    /\ LET device == deviceList[idx]
           value == ClampedOverDrive(hargs.values[1])
           out1 == IF IntVal(hargs.values[1]) > 20
                   THEN Append(stdout, <<device, "Setting OverDrive to 20%">>)
                   ELSE stdout
       IN  IF IntVal(hargs.values[1]) < 0
           THEN /\ Return("negative_overdrive")
                /\ RETCODE' = RETCODE_ERROR
                /\ stdout' = Append(stdout, <<device, "Unable to set OverDrive">>)
                /\ UNCHANGED <<calls, idx, exitCode, cause, hargs, result>>
           ELSE /\ hargs' = [hargs EXCEPT !.values = <<value>>]
                /\ idx' = idx + 1
                /\ UNCHANGED <<pc, outcome, exitCode, cause>>
                /\ \E perfRet \in Statuses :
                     \E isManual \in IF rsmi_ret_ok(perfRet) THEN BOOLEAN ELSE {FALSE} :
                       LET rc1 == rsmi_ret_ok_RETCODE(RETCODE, perfRet)
                       IN  IF isManual
                           THEN SetOverDriveLevel(device, rc1, calls, value, out1)
                           ELSE \E manualRet \in Statuses :
                                  SetOverDriveLevel(device,
                                      rsmi_ret_ok_RETCODE(rc1, manualRet),
                                      Append(calls,
                                          Call("rsmi_dev_perf_level_set", device,
                                               manualRet)),
                                      value,
                                      Append(out1,
                                          <<device,
                                            IF rsmi_ret_ok(manualRet)
                                            THEN "Performance level set to manual"
                                            ELSE "Unable to set performance level to manual">>))
    /\ ODFrame

\* the loop is exhausted
ODEnd ==
    /\ pc = "loop"
    /\ idx > Len(deviceList)
    /\ Return("done")
    /\ UNCHANGED <<deviceList, RETCODE, calls, exitCode>>
    /\ UNCHANGED <<hargs, idx, visited, confirms, clockVars, powerVars>>
    /\ UNCHANGED mainVars
    /\ UNCHANGED <<stdout, lateVars>>

ODNext ==
    \/ ODValidate
    \/ ConfirmOutOfSpecWarning
    \/ SetClockRangeDevice
    \/ SetClockExtremumDevice
    \/ SetVoltageCurveDevice
    \/ SetPowerPlayTableLevelDevice
    \/ SetClockOverDriveDevice
    \/ ODEnd

SpecOD == ODInit /\ [][ODNext]_vars

(***************************************************************************)
(* setPowerOverDrive(deviceList, value, autoRespond).  Power caps are in   *)
(* microwatts, the value is in watts.                                      *)
(***************************************************************************)
\* the default power cap of a device
DefaultCap == DefaultWatts * MICROWATTS

\* the upper end of the power cap range of a device
MaxCap == MaxWatts * MICROWATTS

\* the watt values given on the command line: 0..MaxWatts+1, and a word
WattStrings == {<<Digits[w + 1]>> : w \in 0..(MaxWatts + 1)} \cup {<<"x">>}

PowerInit ==
    /\ HandlerStart("setPowerOverDrive")
    /\ MainIdle
    /\ stdout = <<>>
    /\ LateIdle
    /\ hargs \in [value : WattStrings, autoRespond : {"", "y", "n"}]
    /\ freq_bitmask = 0
    /\ num_supported = 0
    /\ perfLevel = <<>>
    /\ powerCap \in [DevIds -> {MICROWATTS, MaxCap}]
    /\ specWarningConfirmed = FALSE

\* int(value), caught ValueError: RETCODE = 1 and return
SetPowerOverDriveBegin ==
    /\ pc = "setPowerOverDrive"
    /\ IF ~IsInt(hargs.value)
       THEN /\ Return("invalid_args")
            /\ RETCODE' = RETCODE_ERROR
            /\ UNCHANGED idx
       ELSE /\ pc' = "power_loop"
            /\ idx' = 1
            /\ UNCHANGED <<outcome, RETCODE>>
    /\ UNCHANGED <<deviceList, calls, exitCode>>
    /\ UNCHANGED <<hargs, visited, confirms, clockVars, powerVars>>
    /\ UNCHANGED mainVars
    /\ UNCHANGED <<stdout, lateVars>>

\* the end of an iteration: the confirmation when it is due (ask), then
\* rsmi_dev_power_cap_set(device, 0, new_power_cap), whose device and cap
\* are kept in result, and the read-back
PowerCapWrite(device, rc1, calls1, cap1, new_power_cap, ask) ==
    \E typed \in IF ask /\ hargs.autoRespond = "" THEN {"y", "n"} ELSE {""} :
      LET user_input == UserInput(hargs.autoRespond, typed)
      IN  IF ask /\ ~Affirmative(user_input)
          THEN /\ confirms' = Append(confirms, user_input)
               /\ calls' = calls1
               /\ powerCap' = cap1
               /\ Exit(1, "confirmation_declined")
               /\ outcome' = "declined"
               /\ UNCHANGED <<RETCODE, idx, specWarningConfirmed, result>>
          ELSE \E setRet \in Statuses :
                 /\ confirms' = IF ask THEN Append(confirms, user_input)
                                ELSE confirms
                 /\ result' = Append(result, <<device, new_power_cap>>)
                 /\ specWarningConfirmed' = (specWarningConfirmed \/ ask)
                 /\ calls' = Append(calls1,
                        Call("rsmi_dev_power_cap_set", device, setRet))
                 /\ powerCap' = IF rsmi_ret_ok(setRet)
                                THEN [cap1 EXCEPT ![device] = new_power_cap]
                                ELSE cap1
                 /\ IF ~rsmi_ret_ok(setRet) THEN RETCODE' = setRet
                    ELSE IF IntVal(hargs.value) # 0 THEN RETCODE' = rc1
                    ELSE \E lastRet \in Statuses :
                           RETCODE' = rsmi_ret_ok_RETCODE(rc1, lastRet)
                 /\ idx' = idx + 1
                 /\ UNCHANGED <<pc, outcome, exitCode, cause>>

\* the middle of an iteration, with the current and the default cap read:
\* the query of the range, kept in the history, and the range checks,
\* which skip the device with RETCODE = 1
PowerCapChecks(device, rc1, calls1, cap1, current0, default) ==
    \E rangeRet \in Statuses :
     \E minWatts \in IF rsmi_ret_ok(rangeRet) THEN {0, 1} ELSE {0} :
      LET value == IntVal(hargs.value)
          new_power_cap == IF value = 0 THEN default ELSE value * MICROWATTS
          current == IF current0 < default THEN default ELSE current0
      IN  /\ queried' = Append(queried,
               [device |-> device, sensor |-> "power_cap_range",
                ret |-> rangeRet])
          /\ IF \/ ~rsmi_ret_ok(rangeRet)
                \/ value * MICROWATTS > MaxCap
                \/ value < minWatts
             THEN /\ RETCODE' = RETCODE_ERROR
                  /\ calls' = calls1
                  /\ powerCap' = cap1
                  /\ idx' = idx + 1
                  /\ UNCHANGED <<specWarningConfirmed, confirms, result,
                                 pc, outcome, exitCode, cause>>
             ELSE PowerCapWrite(device, rc1, calls1, cap1, new_power_cap,
                      ~specWarningConfirmed /\ new_power_cap > current)

\* one iteration of "for device in deviceList".  A secondary die is
\* skipped.  A failed query leaves its c_uint64 at 0.  When the default cap
\* cannot be read, the cap is reset by rsmi_dev_power_cap_set(device, 0, 0),
\* whose status is not looked at, and read back.  The confirmation is asked for in the iteration of the
\* first device whose new cap exceeds its current cap (raised to the
\* default cap when below it).
SetPowerOverDriveDevice ==
    /\ pc = "power_loop"
    /\ idx <= Len(deviceList)
    /\ visited' = Append(visited, deviceList[idx])
    /\ \E energyRet \in Statuses, curOk, defOk \in BOOLEAN :
        \E energyZero \in IF rsmi_ret_ok(energyRet) THEN BOOLEAN ELSE {FALSE} :
         LET device == deviceList[idx]
             rc1 == rsmi_ret_ok_RETCODE(RETCODE, energyRet)
             current0 == IF curOk THEN powerCap[device] ELSE 0
         IN  IF rsmi_ret_ok(energyRet) /\ energyZero
             THEN /\ RETCODE' = rc1
                  /\ idx' = idx + 1
                  /\ UNCHANGED <<calls, powerCap, specWarningConfirmed, confirms,
                                 pc, outcome, exitCode, cause, queried, result>>
             ELSE IF defOk
             THEN PowerCapChecks(device, rc1, calls, powerCap, current0, DefaultCap)
             ELSE \E resetRet \in {RSMI_STATUS_SUCCESS, MaxStatus},
                     readOk \in BOOLEAN :
                    LET cap1 == IF rsmi_ret_ok(resetRet)
                                THEN [powerCap EXCEPT ![device] = DefaultCap]
                                ELSE powerCap
                    IN  PowerCapChecks(device, rc1,
                            Append(calls,
                                Call("rsmi_dev_power_cap_set", device, resetRet)),
                            cap1, current0,
                            IF readOk THEN cap1[device] ELSE 0)
    /\ UNCHANGED <<deviceList, hargs, clockVars>>
    /\ UNCHANGED <<args, euid, hw, relaunched, isAmd, opsStarted, shutRet>>
    /\ UNCHANGED <<stdout, file, entry, lstep, applied, fromSave, JSON_DATA,
                   pass, firstLevel>>

\* the loop is exhausted: printLogSpacer() and the end of the handler
SetPowerOverDriveEnd ==
    /\ pc = "power_loop"
    /\ idx > Len(deviceList)
    /\ Return("done")
    /\ UNCHANGED <<deviceList, RETCODE, calls, exitCode>>
    /\ UNCHANGED <<hargs, idx, visited, confirms, clockVars, powerVars>>
    /\ UNCHANGED mainVars
    /\ UNCHANGED <<stdout, lateVars>>

PowerNext ==
    \/ SetPowerOverDriveBegin
    \/ SetPowerOverDriveDevice
    \/ SetPowerOverDriveEnd

SpecPower == PowerInit /\ [][PowerNext]_vars

CLOCK_JSON_VERSION == 1

(***************************************************************************)
(* save(deviceList, savefilepath) and load(savefilepath, autoRespond).     *)
(* The settings file is a sequence of device entries, in the order of the  *)
(* JSON object.  In an entry, fan is a number, the other settings are      *)
(* strings; perflevel "-1" stands for the number -1, and clocks is the set *)
(* of clock names of the 'clocks' object with the kind of its values:      *)
(* "str" for the strings save writes, "list" for lists of levels.  In this *)
(* specification the handlers load calls are recorded in "applied"; what   *)
(* they do with the library is the subject of the handler specifications.  *)
(***************************************************************************)
Settings ==
    {"fan", "overdrivesclk", "overdrivemclk", "clocks", "profile", "perflevel"}

\* a plausible slip: the performance level is restored first
LoadOrder_perflevel_first ==
    <<"perflevel", "fan", "overdrivesclk", "overdrivemclk", "clocks", "profile">>

\* the order of the statements of the loop body of load
LoadOrder ==
    <<"fan", "overdrivesclk", "overdrivemclk", "clocks", "profile", "perflevel">>

\* the clock names save writes: the keys of rsmi_clk_names_dict, which
\* setClocks indexes with every valid clock name but 'pcie'
SavedClockNames == validClockNames \ {"pcie"}

\* a hand-written entry of device d with version v that holds the settings S
EntryFor(d, v, S) ==
    [device |-> d,
     vJson |-> v,
     fan |-> IF "fan" \in S THEN 128 ELSE 0,
     overdrivesclk |-> IF "overdrivesclk" \in S THEN "5" ELSE "",
     overdrivemclk |-> IF "overdrivemclk" \in S THEN "5" ELSE "",
     clocks |-> [names |-> IF "clocks" \in S THEN {"mclk", "sclk"} ELSE {},
                 kind |-> "list"],
     profile |-> IF "profile" \in S THEN "1" ELSE "",
     perflevel |-> IF "perflevel" \in S THEN "high" ELSE "-1"]

\* the files of 1..MaxDevices entries, for card0, card1, ..., each of the
\* current or of another version and holding one of five sets of settings
HandFiles ==
    UNION {[1..n -> [v : {CLOCK_JSON_VERSION, 0},
                     S : {{}, Settings, {"fan", "perflevel"},
                          {"overdrivesclk", "clocks"}, {"profile"}}]]
             : n \in 1..MaxDevices}

FileOf(choice) ==
    [i \in 1..Len(choice) |-> EntryFor(i - 1, choice[i].v, choice[i].S)]

\* the test that guards the statement of a setting in load
Present(e, setting) ==
    CASE setting = "fan" -> e.fan # 0
      [] setting = "overdrivesclk" -> e.overdrivesclk # ""
      [] setting = "overdrivemclk" -> e.overdrivemclk # ""
      [] setting = "clocks" -> e.clocks.names \cap validClockNames # {}
      [] setting = "profile" -> e.profile # ""
      [] OTHER -> e.perflevel # "-1"

\* the record of a handler call made by load
Applied(d, setting, clk) == [device |-> d, setting |-> setting, clk |-> clk]

\* validClockNames after validClockNames.sort()
SortedClockNames == <<"dcefclk", "fclk", "mclk", "pcie", "sclk", "socclk">>

\* "for clk in validClockNames: if clk in values['clocks']": the calls of
\* setClocks for an entry, from position i of the sorted names
RECURSIVE ClockCalls(_, _, _)
ClockCalls(d, names, i) ==
    IF i > Len(SortedClockNames) THEN <<>>
    ELSE (IF SortedClockNames[i] \in names
          THEN <<Applied(d, "clocks", SortedClockNames[i])>> ELSE <<>>)
           \o ClockCalls(d, names, i + 1)

\* what save reads from a device: fan level, overdrive level, profile and
\* performance level; a failed read leaves '0', 'UNKNOWN' or 'n/a'
SavedEntries(d) ==
    [device : {d},
     vJson : {CLOCK_JSON_VERSION},
     fan : {0, 128},
     overdrivesclk : {"0", "5"},
     overdrivemclk : {"0"},
     clocks : {[names |-> SavedClockNames, kind |-> "str"]},
     profile : {"1", "UNKNOWN"},
     perflevel : {"auto", "n/a"}]

LoadInit ==
    /\ MainIdle
    /\ RETCODE = 0
    /\ calls = <<>>
    /\ exitCode = 0
    /\ idx = 0
    /\ visited = <<>>
    /\ outcome = "running"
    /\ confirms = <<>>
    /\ freq_bitmask = 0
    /\ num_supported = 0
    /\ perfLevel = <<>>
    /\ powerCap = <<>>
    /\ specWarningConfirmed = FALSE
    /\ stdout = <<>>
    /\ entry = 0
    /\ lstep = 0
    /\ applied = <<>>
    /\ JSON_DATA = <<>>
    /\ queried = <<>>
    /\ result = <<>>
    /\ pass = 0
    /\ firstLevel = <<>>
    /\ hargs \in [autoRespond : {"", "yes", "n"}, isfile : BOOLEAN]
    /\ \/ /\ pc = "save"
          /\ deviceList \in HandlerDeviceLists
          /\ file = <<>>
          /\ fromSave = TRUE
       \/ /\ pc = "load"
          /\ deviceList = <<>>
          /\ \E choice \in HandFiles : file = FileOf(choice)
          /\ fromSave = FALSE

\* what load and save leave alone in every step
LoadFrame ==
    /\ UNCHANGED <<deviceList, calls, idx, visited>>
    /\ UNCHANGED <<clockVars, powerVars>>
    /\ UNCHANGED <<fromSave, JSON_DATA, queried, result, pass, firstLevel>>
    /\ UNCHANGED <<args, euid, hw, relaunched, isAmd, opsStarted, shutRet>>

\* save: an existing file ends the process by sys.exit(); otherwise one
\* entry per device is written, and a failed read is left in RETCODE
Save ==
    /\ pc = "save"
    /\ IF hargs.isfile
       THEN /\ Exit(0, "file_exists")
            /\ outcome' = "not_saved"
            /\ UNCHANGED <<file, hargs, RETCODE>>
       ELSE /\ \E es \in [1..Len(deviceList) -> UNION {SavedEntries(d) : d \in DevIds}] :
                 /\ \A i \in 1..Len(deviceList) : es[i].device = deviceList[i]
                 /\ file' = es
            /\ \E ret \in Statuses : RETCODE' = rsmi_ret_ok_RETCODE(RETCODE, ret)
            /\ hargs' = [hargs EXCEPT !.isfile = TRUE]
            /\ pc' = "load"
            /\ UNCHANGED <<outcome, exitCode, cause>>
    /\ UNCHANGED <<stdout, entry, lstep, applied, confirms>>
    /\ LoadFrame

\* load, run by a process of its own: a missing file ends it by sys.exit()
LoadBegin ==
    /\ pc = "load"
    /\ RETCODE' = 0
    /\ IF ~hargs.isfile
       THEN /\ Exit(0, "no_settings_file")
            /\ outcome' = "not_loaded"
            /\ UNCHANGED entry
       ELSE /\ pc' = "load_entries"
            /\ entry' = 1
            /\ UNCHANGED <<outcome, exitCode, cause>>
    /\ UNCHANGED <<stdout, file, hargs, lstep, applied, confirms>>
    /\ LoadFrame

\* the head of "for (device, values) in jsonData.items()": the loop ends
\* after the last entry, and breaks at an entry of another version
LoadNextEntry ==
    /\ pc = "load_entries"
    /\ IF entry > Len(file)
       THEN /\ Return("done")
            /\ UNCHANGED lstep
       ELSE IF file[entry].vJson # CLOCK_JSON_VERSION
       THEN /\ Return("legacy_file")
            /\ UNCHANGED lstep
       ELSE /\ pc' = "load_settings"
            /\ lstep' = 1
            /\ UNCHANGED outcome
    /\ UNCHANGED <<RETCODE, exitCode, cause>>
    /\ UNCHANGED <<stdout, file, hargs, entry, applied, confirms>>
    /\ LoadFrame

\* the handler calls the statement of a setting makes for entry e
SettingCalls(e, setting) ==
    IF ~Present(e, setting) THEN <<>>
    ELSE IF setting = "clocks" THEN ClockCalls(e.device, e.clocks.names, 1)
    ELSE <<Applied(e.device, setting, "")>>

\* one statement of the loop body, in the order of LoadOrder.  The two
\* overdrive statements call setClockOverDrive, which asks for the
\* confirmation; setClocks iterates over clk and compares each element
\* with 63, which raises TypeError for the characters of a string
LoadSetting ==
    /\ pc = "load_settings"
    /\ lstep <= Len(LoadOrder)
    /\ LET e == file[entry]
           setting == LoadOrder[lstep]
           made == SettingCalls(e, setting)
       IN  IF made = <<>>
           THEN /\ lstep' = lstep + 1
                /\ UNCHANGED <<pc, outcome, exitCode, cause, RETCODE>>
                /\ UNCHANGED <<applied, confirms>>
           ELSE IF setting \in {"overdrivesclk", "overdrivemclk"}
           THEN \E typed \in IF hargs.autoRespond = "" THEN {"y", "n"} ELSE {""} :
                  LET user_input == UserInput(hargs.autoRespond, typed)
                  IN  /\ confirms' = Append(confirms, user_input)
                      /\ IF Affirmative(user_input)
                         THEN /\ applied' = applied \o made
                              /\ lstep' = lstep + 1
                              /\ \E rc \in {RETCODE, RETCODE_ERROR} : RETCODE' = rc
                              /\ UNCHANGED <<pc, outcome, exitCode, cause>>
                         ELSE /\ Exit(1, "confirmation_declined")
                              /\ outcome' = "declined"
                              /\ UNCHANGED <<applied, lstep, RETCODE>>
           ELSE IF setting = "clocks" /\ e.clocks.kind = "str"
           THEN /\ Raise("TypeError")
                /\ UNCHANGED <<applied, lstep, RETCODE, confirms>>
           ELSE /\ applied' = applied \o made
                /\ lstep' = lstep + 1
                /\ \E rc \in {RETCODE, RETCODE_ERROR} : RETCODE' = rc
                /\ UNCHANGED <<pc, outcome, exitCode, cause, confirms>>
    /\ UNCHANGED <<stdout, file, hargs, entry>>
    /\ LoadFrame

\* the last statement of the loop body
LoadEntryDone ==
    /\ pc = "load_settings"
    /\ lstep > Len(LoadOrder)
    /\ stdout' = Append(stdout, <<file[entry].device, "Successfully loaded values">>)
    /\ entry' = entry + 1
    /\ lstep' = 0
    /\ pc' = "load_entries"
    /\ UNCHANGED <<RETCODE, exitCode, cause, outcome>>
    /\ UNCHANGED <<file, hargs, applied, confirms>>
    /\ LoadFrame

LoadNext ==
    \/ Save
    \/ LoadBegin
    \/ LoadNextEntry
    \/ LoadSetting
    \/ LoadEntryDone

SpecLoad == LoadInit /\ [][LoadNext]_vars

(***************************************************************************)
(* setPerformanceLevel(deviceList, level), applied twice in a row with the *)
(* same arguments.  "pass" counts the completed applications, firstLevel   *)
(* is the level of every device after the first one.  A successful         *)
(* rsmi_dev_perf_level_set leaves the device at the level, a failed one    *)
(* leaves its level alone.                                                 *)
(***************************************************************************)
validLevels == <<"auto", "low", "high", "manual">>

\* a plausible slip: the set call is skipped for a device already at the level
PerfLevelSetIssued_unless_current(current, level) ==
    level \in Range(validLevels) /\ current # level

\* "if level not in validLevels: ... else: rsmi_dev_perf_level_set(...)"
PerfLevelSetIssued(current, level) == level \in Range(validLevels)

PerfInit ==
    /\ HandlerStart("setPerformanceLevel")
    /\ MainIdle
    /\ stdout = <<>>
    /\ LateIdle
    /\ hargs \in [level : Range(validLevels) \cup {"AUTO"}]
    /\ freq_bitmask = 0
    /\ num_supported = 0
    /\ perfLevel \in [DevIds -> {"auto", "high"}]
    /\ powerCap = <<>>
    /\ specWarningConfirmed = FALSE

\* what no step of setPerformanceLevel changes
PerfFrame ==
    /\ UNCHANGED <<deviceList, exitCode, hargs, visited, confirms>>
    /\ UNCHANGED <<freq_bitmask, num_supported, powerVars>>
    /\ UNCHANGED <<file, entry, lstep, applied, fromSave, JSON_DATA, queried, result>>
    /\ UNCHANGED mainVars

\* the entry of an application
SetPerformanceLevelBegin ==
    /\ pc = "setPerformanceLevel"
    /\ pc' = "setPerformanceLevel_loop"
    /\ idx' = 1
    /\ UNCHANGED <<RETCODE, calls, outcome, perfLevel, stdout, pass, firstLevel>>
    /\ PerfFrame

\* one iteration of "for device in deviceList"
SetPerformanceLevelDevice ==
    /\ pc = "setPerformanceLevel_loop"
    /\ idx <= Len(deviceList)
    /\ LET device == deviceList[idx]
       IN  IF ~PerfLevelSetIssued(perfLevel[device], hargs.level)
           THEN /\ stdout' = Append(stdout, <<device, "Unable to set Performance Level">>)
                /\ UNCHANGED <<RETCODE, calls, perfLevel>>
           ELSE \E ret \in Statuses :
                  /\ calls' = Append(calls, Call("rsmi_dev_perf_level_set", device, ret))
                  /\ RETCODE' = rsmi_ret_ok_RETCODE(RETCODE, ret)
                  /\ IF rsmi_ret_ok(ret)
                     THEN /\ perfLevel' = [perfLevel EXCEPT ![device] = hargs.level]
                          /\ stdout' = Append(stdout, <<device, "Performance level set to " \o hargs.level>>)
                     ELSE UNCHANGED <<perfLevel, stdout>>
    /\ idx' = idx + 1
    /\ UNCHANGED <<pc, outcome, pass, firstLevel>>
    /\ PerfFrame

\* the end of an application; the second one follows the first
SetPerformanceLevelEnd ==
    /\ pc = "setPerformanceLevel_loop"
    /\ idx > Len(deviceList)
    /\ pass' = pass + 1
    /\ IF pass = 0
       THEN /\ firstLevel' = perfLevel
            /\ pc' = "setPerformanceLevel"
            /\ UNCHANGED outcome
       ELSE /\ Return("done")
            /\ UNCHANGED firstLevel
    /\ UNCHANGED <<RETCODE, calls, idx, perfLevel, stdout>>
    /\ PerfFrame

PerfNext ==
    \/ SetPerformanceLevelBegin
    \/ SetPerformanceLevelDevice
    \/ SetPerformanceLevelEnd

SpecPerf == PerfInit /\ [][PerfNext]_vars

(***************************************************************************)
(* getFanSpeed(device).  The library answers each of the two reads with a  *)
(* status and a value; the percentage is kept in hundredths of a percent,  *)
(* which is what round(x, 2) leaves of it.                                 *)
(***************************************************************************)
\* the largest fan level and fan maximum the library reports
MaxFan == 3

\* a plausible slip: the later status always replaces the earlier one
LastRet_latest(ret1, ret2) == ret2

\* "last_ret = ret ... if last_ret == RSMI_STATUS_SUCCESS: last_ret = ret"
LastRet(ret1, ret2) == IF ret1 = RSMI_STATUS_SUCCESS THEN ret2 ELSE ret1

\* a plausible slip: only the level is tested before the division
ZeroFan_level_only(fl, fm) == fl = 0

\* "if fl == 0 or fm == 0"
ZeroFan(fl, fm) == fl = 0 \/ fm = 0

\* round((float(fl) / float(fm)) * 100, 2) in hundredths; a zero fm raises
\* ZeroDivisionError.  No quotient of values below 32 lies halfway between
\* two hundredths, so the rounding of ties plays no part.
FanPercent(fl, fm) ==
    IF fm = 0 THEN [raised |-> TRUE, value |-> 0]
    ELSE [raised |-> FALSE, value |-> (20000 * fl + fm) \div (2 * fm)]

\* the tuple getFanSpeed returns for the two answers of the library
getFanSpeed(ret1, fanLevel, ret2, fanMax) ==
    LET fl == IF rsmi_ret_ok(ret1) THEN fanLevel ELSE 0
        fm == IF rsmi_ret_ok(ret2) THEN fanMax ELSE 0
        percent == IF ZeroFan(fl, fm) THEN [raised |-> FALSE, value |-> 0]
                   ELSE FanPercent(fl, fm)
    IN  [status |-> LastRet(ret1, ret2), level |-> fl,
         percent |-> percent.value, raised |-> percent.raised]

FanInit ==
    /\ pc = "getFanSpeed"
    /\ \E device \in DevIds : deviceList = <<device>>
    /\ RETCODE = 0
    /\ calls = <<>>
    /\ exitCode = 0
    /\ MainIdle
    /\ hargs \in [fanLevel : 0..MaxFan, fanMax : 0..MaxFan]
    /\ idx = 0
    /\ visited = <<>>
    /\ outcome = "running"
    /\ confirms = <<>>
    /\ freq_bitmask = 0
    /\ num_supported = 0
    /\ perfLevel = <<>>
    /\ powerCap = <<>>
    /\ specWarningConfirmed = FALSE
    /\ stdout = <<>>
    /\ LateIdle

\* one call of getFanSpeed: the two reads, answered with ret1 and ret2, and
\* the returned tuple; rsmi_ret_ok leaves a failed status in RETCODE
GetFanSpeed ==
    /\ pc = "getFanSpeed"
    /\ \E ret1, ret2 \in Statuses :
         LET device == deviceList[1]
             tuple == getFanSpeed(ret1, hargs.fanLevel, ret2, hargs.fanMax)
         IN  /\ calls' = calls \o <<Call("rsmi_dev_fan_speed_get", device, ret1),
                                    Call("rsmi_dev_fan_speed_max_get", device, ret2)>>
             /\ RETCODE' = RetcodeAfter(RETCODE, <<ret1, ret2>>)
             /\ IF tuple.raised
                THEN /\ Raise("ZeroDivisionError")
                     /\ UNCHANGED result
                ELSE /\ Return("done")
                     /\ result' = <<tuple>>
                     /\ UNCHANGED <<exitCode, cause>>
    /\ UNCHANGED <<deviceList, hargs, idx, visited, confirms>>
    /\ UNCHANGED <<clockVars, powerVars, stdout>>
    /\ UNCHANGED <<file, entry, lstep, applied, fromSave, JSON_DATA, queried, pass, firstLevel>>
    /\ UNCHANGED <<args, euid, hw, relaunched, isAmd, opsStarted, shutRet>>

FanNext == GetFanSpeed

SpecFan == FanInit /\ [][FanNext]_vars

(***************************************************************************)
(* JSON and CSV output: rocm-smi --showtemp --json (or --csv).  JSON_DATA  *)
(* is the accumulator, a dict in insertion order: a sequence of            *)
(* [card, data] with data the sequence of <<key, value>> of the card.  A   *)
(* value is the sequence of the pieces of its text, so that ', ' and ': '  *)
(* can be told from the rest.  idx and lstep are the positions of the      *)
(* loops over the devices and over the sensors.                            *)
(***************************************************************************)
\* temp_type_lst, of which two sensors are kept
Sensors == <<"edge", "junction">>

\* a plausible slip: the value read is returned whatever the status
getTemp_ignoring_status(ret, temp) == temp

\* getTemp: temp.value / 1000 as printed, or 'N/A' when the read failed
getTemp(ret, temp) == IF rsmi_ret_ok(ret) THEN temp ELSE <<"N/A">>

\* formatJson(device, key + ': ' + value): the line is split at ': ', the
\* second item is the value, and the key is assigned in the card's dict
formatJson(J, device, key, value) ==
    LET cut == {i \in 1..Len(value) : value[i] = ": "}
        item == IF cut = {} THEN value
                ELSE SubSeq(value, 1, (CHOOSE i \in cut : \A j \in cut : i <= j) - 1)
        Put(data) ==
            IF \E k \in 1..Len(data) : data[k][1] = key
            THEN [k \in 1..Len(data) |->
                    IF data[k][1] = key THEN <<key, item>> ELSE data[k]]
            ELSE Append(data, <<key, item>>)
    IN  [i \in 1..Len(J) |->
           IF J[i].card = device THEN [J[i] EXCEPT !.data = Put(@)] ELSE J[i]]

\* a plausible slip: the empty entries are left in the accumulator
Flushed_unfiltered(J) == J

\* "if not JSON_DATA['card' + str(device)]: JSON_DATA.pop(...)" for every
\* device of the list, each of which has an entry
Flushed(J) == SelectSeq(J, LAMBDA e : e.data # <<>>)

\* formatCsv(deviceList) for device entries only: the header keys in the
\* order they are first seen, one row per device with 'N/A' for a key the
\* device lacks and with the commas of a value removed; the lookup of a
\* device without an entry raises KeyError while the header is collected.
\* out is the sequence of the lines, each the sequence of its cells.
formatCsv(J, devs) ==
    LET Data(d) == (CHOOSE e \in Range(J) : e.card = d).data
        RECURSIVE Keys(_, _, _)
        Keys(i, k, acc) ==
            IF i > Len(devs) THEN acc
            ELSE IF k > Len(Data(devs[i])) THEN Keys(i + 1, 1, acc)
            ELSE Keys(i, k + 1,
                      IF Data(devs[i])[k][1] \in Range(acc) THEN acc
                      ELSE Append(acc, Data(devs[i])[k][1]))
        Cell(d, key) ==
            LET hit == {k \in 1..Len(Data(d)) : Data(d)[k][1] = key}
            IN  IF hit = {} THEN <<"N/A">>
                ELSE SelectSeq(Data(d)[CHOOSE k \in hit : TRUE][2],
                               LAMBDA piece : piece # ",")
    IN  IF \E i \in 1..Len(devs) : \A e \in Range(J) : e.card # devs[i]
        THEN [raised |-> TRUE, out |-> <<>>]
        ELSE LET headerkeys == Keys(1, 1, <<>>)
             IN  IF Len(headerkeys) = 0
                 THEN [raised |-> FALSE, out |-> << <<>> >>]
                 ELSE [raised |-> FALSE,
                       out |-> << <<<<"device">>>> \o [k \in 1..Len(headerkeys) |-> <<headerkeys[k]>>] >>
                               \o [i \in 1..Len(devs) |->
                                     << <<"card" \o Digits[devs[i] + 1]>> >> \o
                                     [k \in 1..Len(headerkeys) |->
                                        Cell(devs[i], headerkeys[k])]]]

JsonInit ==
    /\ pc = "showCurrentTemps"
    /\ deviceList \in HandlerDeviceLists
    /\ RETCODE = 0
    /\ calls = <<>>
    /\ exitCode = 0
    /\ MainIdle
    /\ hargs \in [csv : BOOLEAN, loglevel : {"None", "debug"}]
    /\ idx = 1
    /\ visited = <<>>
    /\ outcome = "running"
    /\ confirms = <<>>
    /\ freq_bitmask = 0
    /\ num_supported = 0
    /\ perfLevel = <<>>
    /\ powerCap = <<>>
    /\ specWarningConfirmed = FALSE
    /\ stdout = <<>>
    /\ file = <<>>
    /\ entry = 0
    /\ lstep = 1
    /\ applied = <<>>
    /\ fromSave = FALSE
    /\ JSON_DATA = [i \in 1..Len(deviceList) |-> [card |-> deviceList[i], data |-> <<>>]]
    /\ queried = <<>>
    /\ result = <<>>
    /\ pass = 0
    /\ firstLevel = <<>>

\* what no step of the JSON flow changes
JsonFrame ==
    /\ UNCHANGED <<deviceList, calls, hargs, visited, confirms>>
    /\ UNCHANGED <<clockVars, powerVars>>
    /\ UNCHANGED <<file, entry, applied, fromSave, result, pass, firstLevel>>
    /\ UNCHANGED <<args, euid, hw, relaunched, isAmd, opsStarted>>

\* showCurrentTemps: one sensor of one device.  With PRINT_JSON set,
\* printLog hands a reading to formatJson and printInfoLog does nothing.
ShowCurrentTemp ==
    /\ pc = "showCurrentTemps"
    /\ idx <= Len(deviceList)
    /\ \E ret \in Statuses :
         LET device == deviceList[idx]
             sensor == Sensors[lstep]
             temp == getTemp(ret, <<"45.0">>)
         IN  /\ queried' = Append(queried, [device |-> device, sensor |-> sensor, ret |-> ret])
             /\ RETCODE' = rsmi_ret_ok_RETCODE(RETCODE, ret)
             /\ JSON_DATA' = IF temp # <<"N/A">>
                             THEN formatJson(JSON_DATA, device,
                                      "Temperature (Sensor " \o sensor \o ") (C)", temp)
                             ELSE JSON_DATA
    /\ IF lstep < Len(Sensors)
       THEN lstep' = lstep + 1 /\ UNCHANGED idx
       ELSE lstep' = 1 /\ idx' = idx + 1
    /\ UNCHANGED <<pc, outcome, exitCode, cause, stdout, shutRet>>
    /\ JsonFrame

\* the end of __main__ up to the output: the override of RETCODE, the
\* removal of the empty entries, the exit when nothing is left, and
\* json.dumps or formatCsv(deviceList)
Flush ==
    /\ pc = "showCurrentTemps"
    /\ idx > Len(deviceList)
    /\ RETCODE' = RetcodeOverride(hargs.loglevel, RETCODE)
    /\ JSON_DATA' = Flushed(JSON_DATA)
    /\ IF JSON_DATA' = <<>>
       THEN /\ Exit(RETCODE', "no_json_data")
            /\ outcome' = "nothing_to_report"
            /\ UNCHANGED stdout
       ELSE IF ~hargs.csv
       THEN /\ stdout' = <<JSON_DATA'>>
            /\ pc' = "shut_down"
            /\ UNCHANGED <<outcome, exitCode, cause>>
       ELSE LET csv == formatCsv(JSON_DATA', deviceList)
            IN  IF csv.raised
                THEN /\ Raise("KeyError")
                     /\ UNCHANGED stdout
                ELSE /\ stdout' = <<csv.out>>
                     /\ pc' = "shut_down"
                     /\ UNCHANGED <<outcome, exitCode, cause>>
    /\ UNCHANGED <<idx, lstep, queried, shutRet>>
    /\ JsonFrame

\* rsmi_ret_ok(rocmsmi.rsmi_shut_down()); exit(RETCODE)
ShutDown ==
    /\ pc = "shut_down"
    /\ \E ret \in Statuses :
         /\ shutRet' = ret
         /\ RETCODE' = rsmi_ret_ok_RETCODE(RETCODE, ret)
    /\ Exit(RETCODE', "final")
    /\ outcome' = "done"
    /\ UNCHANGED <<idx, lstep, queried, stdout, JSON_DATA>>
    /\ JsonFrame

JsonNext ==
    \/ ShowCurrentTemp
    \/ Flush
    \/ ShutDown

SpecJson == JsonInit /\ [][JsonNext]_vars

(***************************************************************************)
(* The query handlers, with PRINT_JSON set: showWeightTopology,            *)
(* showGpusByPid, showMemUse, showRasInfo and showEvents.  hargs.handler   *)
(* is the handler that runs; idx is the position of its loop.  JSON_DATA   *)
(* is keyed as in the source, by 'card' + str(device) and by 'system', and *)
(* stdout holds the lines written by print().  printErrLog, logging.debug  *)
(* and logging.error write to the log, which is not standard output.       *)
(***************************************************************************)
ShowInit ==
    /\ HandlerStart("show")
    /\ MainIdle
    /\ stdout = <<>>
    /\ hargs \in [handler : {"showWeightTopology", "showMemUse", "showRasInfo"},
                  pidList : {<<>>}, eventTypes : {<<>>}]
                 \cup [handler : {"showGpusByPid"},
                       pidList : {<<>>, <<"7">>, <<"7", "8">>},
                       eventTypes : {<<>>}]
                 \cup [handler : {"showEvents"}, pidList : {<<>>},
                       eventTypes : {<<>>, <<"VM_FAULT">>, <<"vm_fault,">>,
                                     <<"bogus">>, <<"VM_FAULT", "bogus">>}]
    /\ freq_bitmask = 0
    /\ num_supported = 0
    /\ perfLevel = <<>>
    /\ powerCap = <<>>
    /\ specWarningConfirmed = FALSE
    /\ file = <<>>
    /\ entry = 0
    /\ lstep = 1
    /\ applied = <<>>
    /\ fromSave = FALSE
    /\ JSON_DATA = [i \in 1..Len(deviceList) |->
                      [card |-> "card" \o Digits[deviceList[i] + 1],
                       data |-> <<>>]]
    /\ queried = <<>>
    /\ result = IF hargs.handler = "showWeightTopology"
                THEN [y \in 1..Len(deviceList) |->
                        [x \in 1..Len(deviceList) |-> <<"0">>]]
                ELSE <<>>
    /\ pass = 0
    /\ firstLevel = <<>>

\* what no step of a query handler changes
ShowFrame ==
    /\ UNCHANGED <<deviceList, hargs, visited, confirms>>
    /\ UNCHANGED <<clockVars, powerVars>>
    /\ UNCHANGED <<file, entry, applied, fromSave, pass, firstLevel>>
    /\ UNCHANGED <<args, euid, hw, relaunched, isAmd, opsStarted, shutRet>>

\* the handler h is at a position of its loop
ShowAt(h) ==
    /\ pc = "show"
    /\ hargs.handler = h
    /\ idx + 1 <= IF h = "showGpusByPid" THEN Len(hargs.pidList)
                  ELSE Len(deviceList)

\* showWeightTopology: one srcdevice of the outer loop.  The matrix has
\* len(deviceList) rows and columns and is indexed by the device ids, so
\* gpu_links_weight[srcdevice][destdevice] raises IndexError at the first
\* destdevice for which one of the two ids is not below len(deviceList);
\* the calls for the destdevices before it are made.  A weight read is
\* printed as 15, a failed read leaves None.
ShowWeightTopologyRow ==
    /\ ShowAt("showWeightTopology")
    /\ \E rets \in [1..Len(deviceList) -> Statuses] :
         LET n == Len(deviceList)
             srcdevice == deviceList[idx + 1]
             bad == {j \in 1..n : srcdevice >= n \/ deviceList[j] >= n}
             stop == IF bad = {} THEN n
                     ELSE CHOOSE j \in bad : \A k \in bad : j <= k
             made == SelectSeq(
                 [j \in 1..stop |-> Call("rsmi_topo_get_link_weight",
                                         <<srcdevice, deviceList[j]>>, rets[j])],
                 LAMBDA c : c.dev[1] # c.dev[2])
             cell(j) == IF deviceList[j] = srcdevice THEN <<"0">>
                        ELSE IF rsmi_ret_ok(rets[j]) THEN <<"15">>
                        ELSE <<"None">>
         IN  /\ \A j \in 1..n :
                  (j > stop \/ deviceList[j] = srcdevice)
                    => rets[j] = RSMI_STATUS_SUCCESS
             /\ calls' = calls \o made
             /\ RETCODE' = RetcodeAfter(RETCODE,
                               [j \in 1..Len(made) |-> made[j].ret])
             /\ IF bad # {}
                THEN /\ Raise("IndexError")
                     /\ UNCHANGED <<idx, result>>
                ELSE /\ idx' = idx + 1
                     /\ result' = [result EXCEPT ![srcdevice + 1] =
                           [x \in 1..n |->
                              IF \E j \in 1..n : deviceList[j] = x - 1
                              THEN cell(CHOOSE j \in 1..n : deviceList[j] = x - 1)
                              ELSE @[x]]]
                     /\ UNCHANGED <<pc, outcome, exitCode, cause>>
    /\ UNCHANGED <<stdout, JSON_DATA, queried, lstep>>
    /\ ShowFrame

\* formatMatrixToJSON(deviceList, matrix, metricName), from the pair of
\* positions (row_indx, col_ind) on: printSysLog for the positions
\* row_indx < col_ind, which creates JSON_DATA['system'] when it is missing
RECURSIVE formatMatrixToJSON(_, _, _, _, _)
formatMatrixToJSON(J, devs, matrix, row_indx, col_ind) ==
    LET WithSystem == IF \E i \in 1..Len(J) : J[i].card = "system" THEN J
                      ELSE Append(J, [card |-> "system", data |-> <<>>])
        metricName == "(Topology) Weight between DRM devices "
                        \o Digits[devs[row_indx] + 1] \o " and "
                        \o Digits[devs[col_ind] + 1]
    IN  IF row_indx > Len(devs) THEN J
        ELSE IF col_ind > Len(devs)
        THEN formatMatrixToJSON(J, devs, matrix, row_indx + 1, row_indx + 2)
        ELSE formatMatrixToJSON(
                 formatJson(WithSystem, "system", metricName,
                            matrix[devs[row_indx] + 1][devs[col_ind] + 1]),
                 devs, matrix, row_indx, col_ind + 1)

\* the loop of the handler is exhausted: showWeightTopology hands its
\* matrix to formatMatrixToJSON, and the handler returns
ShowEnd ==
    /\ pc = "show"
    /\ hargs.handler # "showEvents"
    /\ ~ShowAt(hargs.handler)
    /\ JSON_DATA' = IF hargs.handler = "showWeightTopology"
                    THEN formatMatrixToJSON(JSON_DATA, deviceList, result, 1, 2)
                    ELSE JSON_DATA
    /\ Return("done")
    /\ UNCHANGED <<RETCODE, calls, exitCode, cause, idx, lstep>>
    /\ UNCHANGED <<stdout, queried, result>>
    /\ ShowFrame

\* showGpusByPid: one pid of the loop.  hargs.pidList is the list the loop
\* runs over: the PIDs of the command line, or those of getPidList() when
\* none was given.  printListLog prints only when PRINT_JSON is not set, and
\* printLog(None, ...) adds nothing to JSON_DATA; the else branch is a bare
\* print() of its three arguments.
ShowGpusByPid ==
    /\ ShowAt("showGpusByPid")
    /\ \E ret \in Statuses :
         LET pid == hargs.pidList[idx + 1]
             sized == Call("rsmi_compute_process_gpus_get", pid, ret)
         IN  IF rsmi_ret_ok(ret)
             THEN \E ret2 \in Statuses :
                    /\ calls' = calls \o
                          <<sized, Call("rsmi_compute_process_gpus_get", pid, ret2)>>
                    /\ RETCODE' = rsmi_ret_ok_RETCODE(RETCODE, ret2)
                    /\ UNCHANGED stdout
             ELSE /\ calls' = Append(calls, sized)
                  /\ RETCODE' = ret
                  /\ stdout' = Append(stdout,
                        "None Unable to get list of KFD PIDs. "
                          \o "A kernel update may be needed None")
    /\ idx' = idx + 1
    /\ UNCHANGED <<pc, outcome, exitCode, cause>>
    /\ UNCHANGED <<JSON_DATA, queried, result, lstep>>
    /\ ShowFrame

\* showMemUse: one device of the loop.  getAllocatedMemoryPercent leaves
\* 'value' at "N/A" unless both reads of getMemInfo succeed and the total
\* is not 0, and int("N/A") raises ValueError in the arguments of the first
\* printLog.  Otherwise the four metrics follow; printLog(device,
\* 'Not supported on the given system', None) has no ':' and is dropped.
ShowMemUseDevice ==
    /\ ShowAt("showMemUse")
    /\ \E usedRet, totalRet \in Statuses :
        \E totalZero \in IF rsmi_ret_ok(totalRet) THEN BOOLEAN ELSE {FALSE} :
         LET device == deviceList[idx + 1]
             card == "card" \o Digits[device + 1]
             memCalls == <<Call("rsmi_dev_memory_usage_get", device, usedRet),
                           Call("rsmi_dev_memory_total_get", device, totalRet)>>
             rc1 == RetcodeAfter(RETCODE, <<usedRet, totalRet>>)
             value == IF rsmi_ret_ok(usedRet) /\ rsmi_ret_ok(totalRet)
                         /\ ~totalZero
                      THEN <<"30">> ELSE <<"N/A">>
         IN  IF value = <<"N/A">>
             THEN /\ calls' = calls \o memCalls
                  /\ RETCODE' = rc1
                  /\ Raise("ValueError")
                  /\ UNCHANGED <<JSON_DATA, idx>>
             ELSE \E busyRet, utilRet, avgRet \in {RSMI_STATUS_SUCCESS, MaxStatus} :
                    LET J1 == formatJson(JSON_DATA, card,
                                  "GPU Memory Allocated (VRAM%)", value)
                        J2 == IF rsmi_ret_ok(busyRet)
                              THEN formatJson(J1, card,
                                       "GPU Memory Read/Write Activity (%)", <<"7">>)
                              ELSE J1
                        J3 == formatJson(J2, card, "Memory Activity",
                                  IF rsmi_ret_ok(utilRet) THEN <<"7">>
                                  ELSE <<"N/A">>)
                    IN  /\ calls' = calls \o memCalls \o
                              <<Call("rsmi_dev_memory_busy_percent_get", device, busyRet),
                                Call("rsmi_utilization_count_get", device, utilRet),
                                Call("rsmi_dev_activity_avg_mm_get", device, avgRet)>>
                        /\ RETCODE' = RetcodeAfter(rc1, <<busyRet, utilRet, avgRet>>)
                        /\ JSON_DATA' = IF rsmi_ret_ok(avgRet)
                                        THEN formatJson(J3, card,
                                                 "Avg. Memory Bandwidth", <<"7">>)
                                        ELSE J3
                        /\ idx' = idx + 1
                        /\ UNCHANGED <<pc, outcome, exitCode, cause>>
    /\ UNCHANGED <<stdout, queried, result, lstep>>
    /\ ShowFrame

\* the blocks of rsmi_gpu_block_d that the model asks for
rasBlocks == <<"UMC", "SDMA">>

\* showRasInfo: one block of one device.  The row of a block whose status
\* was read is kept in result, with the state as the table spells it (the
\* row has it in upper case) and with whether the counts were appended;
\* printTableLog prints nothing when PRINT_JSON is set.  The condition of the error count is
\* "state != 'disabled' or 'none' or 'unknown error'", in which the string
\* 'none' stands as an operand of "or" and counts as true.
ShowRasInfoBlock ==
    /\ ShowAt("showRasInfo")
    /\ \E ret \in Statuses :
         LET device == deviceList[idx + 1]
             block == rasBlocks[lstep]
             status == Call("rsmi_dev_ecc_status_get", <<device, block>>, ret)
         IN  IF ~rsmi_ret_ok(ret)
             THEN /\ calls' = Append(calls, status)
                  /\ RETCODE' = ret
                  /\ UNCHANGED result
             ELSE \E state \in {"disabled", "enabled"} :
                    IF state # "disabled" \/ "none" # "" \/ "unknown error" # ""
                    THEN \E cntRet \in Statuses :
                           /\ calls' = calls \o <<status,
                                 Call("rsmi_dev_ecc_count_get", <<device, block>>, cntRet)>>
                           /\ RETCODE' = rsmi_ret_ok_RETCODE(RETCODE, cntRet)
                           /\ result' = Append(result,
                                 [device |-> device, block |-> block,
                                  state |-> state, counts |-> rsmi_ret_ok(cntRet)])
                    ELSE /\ calls' = Append(calls, status)
                         /\ result' = Append(result,
                               [device |-> device, block |-> block,
                                state |-> state, counts |-> FALSE])
                         /\ UNCHANGED RETCODE
    /\ IF lstep < Len(rasBlocks)
       THEN lstep' = lstep + 1 /\ UNCHANGED idx
       ELSE lstep' = 1 /\ idx' = idx + 1
    /\ UNCHANGED <<pc, outcome, exitCode, cause>>
    /\ UNCHANGED <<stdout, JSON_DATA, queried>>
    /\ ShowFrame

\* the keys that the model presses after the first one
MaxKeys == 2

\* showEvents up to its loops: event.replace(',', '').upper() is looked up
\* in notification_type_names, and the names found make eventTypeList.
\* The loop that starts the threads is in the body of
\* "if len(eventTypeList) == 0", after the list has been replaced by all
\* the names; with a name recognised, the handler goes on to the keyboard.
ShowEventsBegin ==
    /\ pc = "show"
    /\ hargs.handler = "showEvents"
    /\ LET cleaned(event) == CASE event = "vm_fault," -> "VM_FAULT"
                               [] event = "bogus" -> "BOGUS"
                               [] OTHER -> event
           eventTypeList == SelectSeq(hargs.eventTypes,
               LAMBDA event : cleaned(event) \in
                   {"VM_FAULT", "THERMAL_THROTTLE", "GPU_PRE_RESET", "GPU_POST_RESET"})
       IN  pc' = IF Len(eventTypeList) = 0 /\ deviceList # <<>>
                 THEN "start_new_thread" ELSE "getch"
    /\ UNCHANGED <<RETCODE, calls, exitCode, cause, idx, outcome, lstep>>
    /\ UNCHANGED <<stdout, JSON_DATA, queried, result>>
    /\ ShowFrame

\* _thread.start_new_thread(printEventList, (device, 1000, eventTypeList)):
\* result holds the devices whose thread was started; when the start raises,
\* the handler returns
StartEventThread ==
    /\ pc = "start_new_thread"
    /\ \E started \in BOOLEAN :
         IF started
         THEN /\ result' = Append(result, deviceList[idx + 1])
              /\ idx' = idx + 1
              /\ pc' = IF idx' = Len(deviceList) THEN "getch" ELSE pc
              /\ UNCHANGED outcome
         ELSE /\ Return("thread_failed")
              /\ UNCHANGED <<idx, result>>
    /\ UNCHANGED <<RETCODE, calls, exitCode, cause, lstep>>
    /\ UNCHANGED <<stdout, JSON_DATA, queried>>
    /\ UNCHANGED <<deviceList, hargs, visited, confirms>>
    /\ UNCHANGED <<clockVars, powerVars>>
    /\ UNCHANGED <<file, entry, applied, fromSave, pass, firstLevel>>
    /\ UNCHANGED <<args, euid, hw, relaunched, isAmd, opsStarted, shutRet>>

\* one turn of "while 1": a key is read; 'q' or ctrl+c ('\x03') stops the
\* notification of every device of the list, prints '\r' and leaves the
\* loop, any other key is ignored
GetKey ==
    /\ pc = "getch"
    /\ \E user_input \in {"q", "\\x03"}
            \cup IF Len(confirms) < MaxKeys THEN {"x"} ELSE {} :
         /\ confirms' = Append(confirms, user_input)
         /\ IF user_input \in {"q", "\\x03"}
            THEN \E rets \in [1..Len(deviceList) -> Statuses] :
                   /\ calls' = calls \o
                         [i \in 1..Len(deviceList) |->
                            Call("rsmi_event_notification_stop", deviceList[i], rets[i])]
                   /\ RETCODE' = RetcodeAfter(RETCODE, rets)
                   /\ stdout' = Append(stdout, "\\r")
                   /\ Return("done")
            ELSE UNCHANGED <<calls, RETCODE, stdout, pc, outcome>>
    /\ UNCHANGED <<exitCode, cause, idx, lstep, JSON_DATA, queried, result>>
    /\ UNCHANGED <<deviceList, hargs, visited>>
    /\ UNCHANGED <<clockVars, powerVars>>
    /\ UNCHANGED <<file, entry, applied, fromSave, pass, firstLevel>>
    /\ UNCHANGED <<args, euid, hw, relaunched, isAmd, opsStarted, shutRet>>

ShowNext ==
    \/ ShowEventsBegin
    \/ StartEventThread
    \/ GetKey
    \/ ShowWeightTopologyRow
    \/ ShowGpusByPid
    \/ ShowMemUseDevice
    \/ ShowRasInfoBlock
    \/ ShowEnd

SpecShow == ShowInit /\ [][ShowNext]_vars

(***************************************************************************)
(* printLog in plain-text mode, called by concurrent workers.  Each call   *)
(* makes its own lock, "lock = multiprocessing.Lock()", acquires it,       *)
(* prints and flushes, and releases it; progressbar does the same around   *)
(* its print.  pc[w] is the position of worker w in its call, idx[w] the   *)
(* lock of the call, result[l] the holder of lock l (0 when free), pass[w] *)
(* the calls worker w has completed, stdout the workers in the order of    *)
(* their lines.                                                            *)
(***************************************************************************)
MaxWorkers == 2

MaxPrints == 2

LockInit ==
    /\ pc = [w \in 1..MaxWorkers |-> "printLog"]
    /\ deviceList = <<>>
    /\ RETCODE = 0
    /\ calls = <<>>
    /\ exitCode = 0
    /\ MainIdle
    /\ hargs = <<>>
    /\ idx = [w \in 1..MaxWorkers |-> 0]
    /\ visited = <<>>
    /\ outcome = "running"
    /\ confirms = <<>>
    /\ freq_bitmask = 0
    /\ num_supported = 0
    /\ perfLevel = <<>>
    /\ powerCap = <<>>
    /\ specWarningConfirmed = FALSE
    /\ stdout = <<>>
    /\ file = <<>>
    /\ entry = 0
    /\ lstep = 0
    /\ applied = <<>>
    /\ fromSave = FALSE
    /\ JSON_DATA = <<>>
    /\ queried = <<>>
    /\ result = <<>>
    /\ pass = [w \in 1..MaxWorkers |-> 0]
    /\ firstLevel = <<>>

\* "lock = multiprocessing.Lock()" and "lock.acquire()": the lock is new,
\* so it is free, and the worker holds it at once
PrintLogAcquire(w) ==
    /\ pc[w] = "printLog"
    /\ pass[w] < MaxPrints
    /\ result' = Append(result, w)
    /\ idx' = [idx EXCEPT ![w] = Len(result) + 1]
    /\ pc' = [pc EXCEPT ![w] = "print"]
    /\ UNCHANGED <<stdout, pass>>
    /\ UNCHANGED <<deviceList, RETCODE, calls, exitCode>>
    /\ UNCHANGED mainVars
    /\ UNCHANGED <<hargs, visited, outcome, confirms, clockVars, powerVars>>
    /\ UNCHANGED <<file, entry, lstep, applied, fromSave, JSON_DATA, queried,
                   firstLevel>>

\* the print and sys.stdout.flush() between acquire and release; on
\* BrokenPipeError or IOError the worker leaves by sys.exit(1), the lock
\* still held
PrintLogPrint(w) ==
    /\ pc[w] = "print"
    /\ result[idx[w]] = w
    /\ \E written \in BOOLEAN :
         IF written
         THEN /\ stdout' = Append(stdout, w)
              /\ pc' = [pc EXCEPT ![w] = "release"]
         ELSE /\ pc' = [pc EXCEPT ![w] = "exited"]
              /\ UNCHANGED stdout
    /\ UNCHANGED <<result, idx, pass>>
    /\ UNCHANGED <<deviceList, RETCODE, calls, exitCode>>
    /\ UNCHANGED mainVars
    /\ UNCHANGED <<hargs, visited, outcome, confirms, clockVars, powerVars>>
    /\ UNCHANGED <<file, entry, lstep, applied, fromSave, JSON_DATA, queried,
                   firstLevel>>

\* "lock.release()" and the return of the call
PrintLogRelease(w) ==
    /\ pc[w] = "release"
    /\ result' = [result EXCEPT ![idx[w]] = 0]
    /\ idx' = [idx EXCEPT ![w] = 0]
    /\ pass' = [pass EXCEPT ![w] = @ + 1]
    /\ pc' = [pc EXCEPT ![w] = "printLog"]
    /\ UNCHANGED stdout
    /\ UNCHANGED <<deviceList, RETCODE, calls, exitCode>>
    /\ UNCHANGED mainVars
    /\ UNCHANGED <<hargs, visited, outcome, confirms, clockVars, powerVars>>
    /\ UNCHANGED <<file, entry, lstep, applied, fromSave, JSON_DATA, queried,
                   firstLevel>>

LockNext ==
    \/ \E w \in 1..MaxWorkers : PrintLogAcquire(w)
    \/ \E w \in 1..MaxWorkers : PrintLogPrint(w)
    \/ \E w \in 1..MaxWorkers : PrintLogRelease(w)

SpecLock == LockInit /\ [][LockNext]_vars

(***************************************************************************)
(* Properties of the __main__ flow.                                        *)
(***************************************************************************)
\* the device list selection has completed
Selected ==
    \/ pc \in {"dispatch", "final"}
    \/ pc = "exited" /\ cause \in {"final", "gpureset", "gpureset_no_device"}

\* the vendor query of device d succeeded and reported the AMD id 0x1002
AmdByHw(d) ==
    hw.vendor[d].ret = RSMI_STATUS_SUCCESS /\ hw.vendor[d].id = 4098

Enumerated == 0..(hw.numDevices - 1)

\* position of the first occurrence of d in the sequence s
FirstIndex(s, d) == CHOOSE i \in 1..Len(s) : s[i] = d /\ \A j \in 1..(i - 1) : s[j] # d

C2_IsAmdDevice ==
    \A d \in DOMAIN isAmd :
      isAmd[d] <=> (hw.vendor[d].ret = RSMI_STATUS_SUCCESS /\ hw.vendor[d].id = 4098)

\* the selection saw an AMD device, and a device whose query failed with
\* 0x1002 in the buffer
C2_Witness ==
    \E d, e \in DOMAIN isAmd :
      /\ isAmd[d]
      /\ ~isAmd[e] /\ hw.vendor[e].ret # RSMI_STATUS_SUCCESS /\ hw.vendor[e].id = 4098

\* C3 as stated: whenever an operation over the device list has started,
\* the device list is not empty.
C3_OperationsSeeNonEmptyList ==
    (\E i \in 1..Len(opsStarted) : opsStarted[i] # "gpureset")
      => deviceList # <<>>

\* C4 as stated: a fatal setup error (driver not loaded, library init
\* failure, zero devices enumerated, a requested device that does not
\* exist) ends the process with a nonzero exit code before any operation.
C4_FatalSetupErrorsExitNonzero ==
    /\ (pc = "exited" /\ cause \in {"driver_not_initialized", "rsmi_init",
                                   "listDevices", "no_such_device"})
         => (exitCode # 0 /\ opsStarted = <<>>)
    /\ (hw.numDevices = 0 /\ args.device = <<>>) => opsStarted = <<>>

\* the status of the most recent failed call of the history, 0 if none
LastFailure ==
    LET F == {i \in 1..Len(calls) : calls[i].ret # RSMI_STATUS_SUCCESS}
    IN  IF F = {} THEN 0
        ELSE calls[CHOOSE i \in F : \A j \in F : j <= i].ret

FreqSetCalls == {"rsmi_dev_gpu_clk_freq_set", "rsmi_dev_pci_bandwidth_set"}

\* every set call of setClocks
ClockWriteCalls == FreqSetCalls \cup {"rsmi_dev_perf_level_set"}

RECURSIVE SumPow2(_)
SumPow2(S) ==
    IF S = {} THEN 0
    ELSE LET b == CHOOSE x \in S : TRUE
         IN  2 ^ b + SumPow2(S \ {b})

\* the request was rejected for a level above 63 or for its bitmask
ClocksRejected == outcome \in {"invalid_level", "invalid_bitmask"}

C7_EveryDeviceVisited ==
    (pc = "returned" /\ outcome \in {"done", "perf_level_failed",
                                     "freq_get_failed", "invalid_bitmask"})
      => Range(visited) = Range(deviceList)

(***************************************************************************)
(* Properties of the handlers that ask for the out-of-spec confirmation.   *)
(***************************************************************************)
\* the answers that confirm
AffirmativeTokens == {"y", "Y", "yes", "Yes", "YES"}

\* C8: in setClockOverDrive, setClockRange, setClockExtremum,
\* setVoltageCurve and setPowerPlayTableLevel the confirmation is asked for
\* once, before the per-device loop (arguments that fail the checks end the
\* handler before it is asked for); no device is visited and no set call is
\* made unless the answer was one of y, Y, yes, Yes, YES, and any other
\* answer ends the process, with a nonzero status, with no set call made
\* for any device.
C8_ConfirmationOnceBeforeLoop ==
    /\ Len(confirms) <= 1
    /\ (pc = "loop" \/ visited # <<>> \/ calls # <<>> \/ outcome = "done")
         => (Len(confirms) = 1 /\ confirms[1] \in AffirmativeTokens)
    /\ (confirms # <<>> /\ confirms[1] \notin AffirmativeTokens)
         => /\ pc = "exited"
            /\ exitCode # 0
            /\ calls = <<>>
            /\ visited = <<>>
    /\ pc \in {"validate", "confirm"} => (calls = <<>> /\ visited = <<>>)
    /\ outcome = "invalid_args" => (confirms = <<>> /\ calls = <<>>)

\* the answer "n" to the confirmation of a handler entered with devices:
\* the process has ended and nothing was set
C8_Witness ==
    /\ pc = "exited"
    /\ cause = "confirmation_declined"
    /\ deviceList # <<>>
    /\ confirms = <<"n">>
    /\ calls = <<>>

\* C9 as stated: in setPowerOverDrive, when the confirmation is declined
\* the process ends with no power cap of any device in the list written,
\* and no power cap is written before the confirmation that the batch
\* needs has been given.
C9_NoPowerCapWriteBeforeConfirmation ==
    (pc = "exited" /\ cause = "confirmation_declined")
      => \A i \in 1..Len(calls) : calls[i].fn # "rsmi_dev_power_cap_set"

\* C10 as stated: every write of a dispatched action is made by a
\* privileged process (the unprivileged one has re-invoked itself first).
C10_WritesOnlyWhenPrivileged ==
    \A i \in 1..Len(calls) : calls[i].fn \in WriteCalls => euid = 0

\* the place of a setting in the order fan, sclk overdrive, mclk overdrive,
\* clocks, profile, performance level
Rank(setting) ==
    CASE setting = "fan" -> 1
      [] setting = "overdrivesclk" -> 2
      [] setting = "overdrivemclk" -> 3
      [] setting = "clocks" -> 4
      [] setting = "profile" -> 5
      [] OTHER -> 6

\* the places in "applied" of the handler calls made for device d
AppliedTo(d) == {i \in 1..Len(applied) : applied[i].device = d}

C12_LegacyFileRejected ==
    (\E i \in 1..Len(file) : file[i].vJson # CLOCK_JSON_VERSION)
        => applied = <<>>

\* C13 as stated: save followed by load with autoRespond 'yes' completes,
\* and has then called, for each saved device, the handler of each of its
\* saved settings.
C13_RoundTrip ==
    (/\ fromSave
     /\ hargs.autoRespond = "yes"
     /\ pc \in {"returned", "exited"}
     /\ cause # "file_exists")
        => /\ outcome = "done"
           /\ \A k \in 1..Len(file) :
                {applied[i].setting : i \in AppliedTo(file[k].device)}
                    = {s \in Settings : Present(file[k], s)}

\* the statuses of the rsmi_dev_perf_level_set calls made for device d
PerfSetRets(d) ==
    LET S == SelectSeq(calls, LAMBDA c : c.fn = "rsmi_dev_perf_level_set" /\ c.dev = d)
    IN  [i \in 1..Len(S) |-> S[i].ret]

\* C14: after setPerformanceLevel(devices, X) was applied twice in a row
\* with a valid level X, the set call has been issued twice for every
\* device of the list, the second time also when the device was already at
\* X; and every device for which the library answered the second call as it
\* answered the first is at the level it had after the first application.
C14_PerformanceLevelIdempotent ==
    (pc = "returned" /\ hargs.level \in Range(validLevels))
        => \A i \in 1..Len(deviceList) :
             LET d == deviceList[i]
             IN  /\ Len(PerfSetRets(d)) = 2
                 /\ PerfSetRets(d)[1] = PerfSetRets(d)[2]
                      => perfLevel[d] = firstLevel[d]

\* both applications succeeded on two devices that were at another level
C14_Witness ==
    /\ pc = "returned"
    /\ pass = 2
    /\ hargs.level = "low"
    /\ Len(deviceList) = 2
    /\ \A d \in DevIds :
         /\ PerfSetRets(d) = <<RSMI_STATUS_SUCCESS, RSMI_STATUS_SUCCESS>>
         /\ perfLevel[d] = "low"
         /\ firstLevel[d] = "low"

\* the lines printed for device d
LinesOf(d) == {stdout[i][2] : i \in {k \in 1..Len(stdout) : stdout[k][1] = d}}

LastFailedQuery ==
    LET F == {i \in 1..Len(queried) : queried[i].ret # RSMI_STATUS_SUCCESS}
    IN  IF F = {} THEN 0
        ELSE queried[CHOOSE i \in F : \A j \in F : j <= i].ret

\* the devices for which a temperature query succeeded
DevicesWithData ==
    {queried[i].device : i \in {k \in 1..Len(queried) :
                                   queried[k].ret = RSMI_STATUS_SUCCESS}}

\* C18: in JSON mode a temperature query of a device sensor that returns a
\* non-success status adds no numeric value to the device's entry (the key
\* of the sensor is absent, or holds 'N/A'), and its status is in RETCODE
\* until a later query fails; the process, when it ends by one of the exit
\* statements of __main__ with rsmi_shut_down successful, exits with the
\* status of the last failed query, or with 0 when the log level is absent
\* or WARNING.
C18_FailedTemperatureQuery ==
    /\ \A i \in 1..Len(queried) : \A j \in 1..Len(JSON_DATA) :
         (queried[i].ret # RSMI_STATUS_SUCCESS /\ JSON_DATA[j].card = queried[i].device)
            => \A k \in 1..Len(JSON_DATA[j].data) :
                 JSON_DATA[j].data[k][1] =
                     "Temperature (Sensor " \o queried[i].sensor \o ") (C)"
                   => JSON_DATA[j].data[k][2] = <<"N/A">>
    /\ pc = "showCurrentTemps" => RETCODE = LastFailedQuery
    /\ (pc = "exited" /\ cause \in {"no_json_data", "final"}
          /\ shutRet = RSMI_STATUS_SUCCESS)
         => exitCode = IF hargs.loglevel \in {"None", "warning"} THEN 0
                       ELSE LastFailedQuery

\* --showtemp --json --loglevel debug: the edge sensor answered status 2,
\* the junction sensor a reading
C18_Witness ==
    /\ pc = "exited"
    /\ cause = "final"
    /\ shutRet = RSMI_STATUS_SUCCESS
    /\ hargs = [csv |-> FALSE, loglevel |-> "debug"]
    /\ queried = <<[device |-> 0, sensor |-> "edge", ret |-> 2],
                   [device |-> 0, sensor |-> "junction", ret |-> RSMI_STATUS_SUCCESS]>>
    /\ exitCode = 2
    /\ stdout = << <<[card |-> 0,
                      data |-> << <<"Temperature (Sensor junction) (C)", <<"45.0">> >> >>]>> >>

\* C19: after the flush the accumulator holds an entry for exactly the
\* devices for which some query produced data, none of them empty; the
\* JSON text printed is that accumulator; and when no device produced
\* data nothing is printed and the process exits.
C19_EmptyEntriesOmitted ==
    pc \in {"shut_down", "exited"}
        => /\ {JSON_DATA[j].card : j \in 1..Len(JSON_DATA)} = DevicesWithData
           /\ \A j \in 1..Len(JSON_DATA) : JSON_DATA[j].data # <<>>
           /\ (stdout # <<>> /\ ~hargs.csv)
                => /\ stdout = <<JSON_DATA>>
                   /\ \A j \in 1..Len(stdout[1]) : stdout[1][j].data # <<>>
           /\ DevicesWithData = {}
                => (stdout = <<>> /\ pc = "exited" /\ cause = "no_json_data")

\* --showtemp --json on two devices, the second of which answered no query
C19_Witness ==
    /\ pc = "exited"
    /\ cause = "final"
    /\ ~hargs.csv
    /\ deviceList = <<0, 1>>
    /\ DevicesWithData = {0}
    /\ Len(stdout[1]) = 1
    /\ stdout[1][1].card = 0

\* C20 as stated: in CSV mode, when some device produced data, the flush
\* prints the header line and one row per device of the list, and the row
\* of a device holds N/A in the column of every key the device lacks, a
\* device without any data included.
C20_CsvFromAccumulator ==
    (/\ hargs.csv
     /\ pc \in {"shut_down", "exited"}
     /\ DevicesWithData # {})
        => /\ outcome # "raised"
           /\ Len(stdout) = 1
           /\ Len(stdout[1]) = Len(deviceList) + 1
           /\ \A i \in 1..Len(deviceList) :
                /\ stdout[1][i + 1][1] = <<"card" \o Digits[deviceList[i] + 1]>>
                /\ deviceList[i] \notin DevicesWithData
                     => \A k \in 2..Len(stdout[1][i + 1]) :
                          stdout[1][i + 1][k] = <<"N/A">>

\* C27: in setClocks, in the iteration of a device whose performance level
\* is not manual, a frequency or bandwidth set call for the device is issued
\* only after a successful rsmi_dev_perf_level_set for it in the same
\* iteration; and once a rsmi_dev_perf_level_set failed for a device, no
\* frequency or bandwidth set call for that device is in the history.
C27_ManualBeforeFrequencySet ==
    [][LET new == SubSeq(calls', Len(calls) + 1, Len(calls'))
       IN  pc = "setClocks_loop" =>
             \A d \in DevIds :
               /\ perfLevel[d] # "manual" =>
                    \A k \in 1..Len(new) :
                      (new[k].fn \in FreqSetCalls /\ new[k].dev = d)
                        => \E j \in 1..(k - 1) :
                             new[j] = Call("rsmi_dev_perf_level_set", d,
                                           RSMI_STATUS_SUCCESS)
               /\ (\E j \in 1..Len(calls') :
                      /\ calls'[j].fn = "rsmi_dev_perf_level_set"
                      /\ calls'[j].dev = d
                      /\ calls'[j].ret # RSMI_STATUS_SUCCESS)
                    => /\ pc' = "returned"
                       /\ \A k \in 1..Len(calls') :
                            ~(calls'[k].fn \in FreqSetCalls
                              /\ calls'[k].dev = d)]_vars

\* a completed run over two devices in which the second was switched to
\* manual and then had its frequency set
C27_Witness ==
    /\ pc = "returned"
    /\ outcome = "done"
    /\ deviceList = <<0, 1>>
    /\ \E j, k \in 1..Len(calls) :
         /\ j < k
         /\ calls[j] = Call("rsmi_dev_perf_level_set", 1, RSMI_STATUS_SUCCESS)
         /\ calls[k].fn \in FreqSetCalls
         /\ calls[k].dev = 1

\* C26 as stated: when some numeric input of the handler does not convert
\* to an integer, the handler returns with RETCODE set to an error status,
\* without raising and without a library call.
C26_NonIntegerInputRejected ==
    (/\ pc \in {"returned", "exited"}
     /\ \E i \in 1..Len(hargs.values) : ~IsInt(hargs.values[i]))
        => /\ pc = "returned"
           /\ outcome = "invalid_args"
           /\ RETCODE = RETCODE_ERROR
           /\ calls = <<>>

\* C29 as stated: resetPowerOverDrive, which is setPowerOverDrive with the
\* value 0, makes the write of the cap (the default cap as the handler read
\* it) for every device whose cap range was read (no secondary die gets
\* that far), whatever minimum the range has.
C29_ResetWritesDefaultCap ==
    (/\ IsInt(hargs.value)
     /\ IntVal(hargs.value) = 0
     /\ pc = "returned")
        => \A i \in 1..Len(queried) :
             queried[i].ret = RSMI_STATUS_SUCCESS
               => \E k \in 1..Len(result) : result[k][1] = queried[i].device

\* C30 as stated, for setPerformanceLevel: RETCODE is nonzero exactly when
\* a checked call failed or the validation of the level failed for some
\* device, and after a failed call it is the status of the most recent one.
C30_RetcodeTracksFailures ==
    /\ (RETCODE # 0) <=>
          \/ LastFailure # 0
          \/ \E d \in DevIds : "Unable to set Performance Level" \in LinesOf(d)
    /\ LastFailure # 0 => RETCODE = LastFailure

\* C21 as stated, for the link weight: in JSON mode, for every device list,
\* showWeightTopology returns, and the 'system' entry then holds exactly
\* one key for each pair of list positions i < j, naming the two devices in
\* that order, and no other key.
C21_OneEntryPerUnorderedPair ==
    (hargs.handler = "showWeightTopology" /\ pc \in {"returned", "exited"})
        => /\ pc = "returned"
           /\ LET n == Len(deviceList)
                  system == {i \in 1..Len(JSON_DATA) : JSON_DATA[i].card = "system"}
                  keys == {d[1] : d \in UNION {Range(JSON_DATA[i].data) : i \in system}}
                  pairs == {p \in (1..n) \X (1..n) : p[1] < p[2]}
              IN  /\ keys = {"(Topology) Weight between DRM devices "
                                \o Digits[deviceList[p[1]] + 1] \o " and "
                                \o Digits[deviceList[p[2]] + 1] : p \in pairs}
                  /\ \A i \in system : Len(JSON_DATA[i].data) = Cardinality(pairs)

\* C22 as stated: with PRINT_JSON set, before the flush, nothing has been
\* written to standard output, and JSON_DATA holds only device keys and
\* the key 'system'.
C22_NothingPrintedBeforeFlush ==
    /\ stdout = <<>>
    /\ \A i \in 1..Len(JSON_DATA) :
         JSON_DATA[i].card \in
           {"system"} \cup {"card" \o Digits[d + 1] : d \in DevIds}

\* C24 as stated: a query handler in which library calls returned a
\* non-success status does not raise, whichever calls they are.
C24_QueriesNeverRaise ==
    (/\ hargs.handler \in {"showMemUse", "showGpusByPid", "showRasInfo"}
     /\ LastFailure # 0)
        => outcome # "raised"

\* C25 as stated: in showRasInfo, rsmi_dev_ecc_count_get is called for a
\* block of a device exactly when the status of the block was read and its
\* state is not "disabled".
C25_ErrorCountUnlessDisabled ==
    hargs.handler = "showRasInfo"
        => \A d \in DevIds, b \in Range(rasBlocks) :
             (\E k \in 1..Len(calls) :
                /\ calls[k].fn = "rsmi_dev_ecc_count_get"
                /\ calls[k].dev = <<d, b>>)
             <=> (\E k \in 1..Len(result) :
                    /\ result[k].device = d
                    /\ result[k].block = b
                    /\ result[k].state # "disabled")

\* C28 as stated: whatever event types were asked for, showEvents has
\* started one thread for each device of the list, in the order of the
\* list, when it waits for a key; and when it returns after 'q' or ctrl+c
\* it has asked every device of the list to stop its notification.
C28_OneWorkerPerDevice ==
    hargs.handler = "showEvents"
        => /\ pc = "getch" => result = deviceList
           /\ (pc = "returned" /\ outcome = "done")
                => /\ result = deviceList
                   /\ Len(calls) = Len(deviceList)
                   /\ \A i \in 1..Len(calls) :
                        /\ calls[i].fn = "rsmi_event_notification_stop"
                        /\ calls[i].dev = deviceList[i]

\* C23 as stated: at any time at most one worker is between the acquire
\* and the release of a printLog call.
C23_AtMostOnePrinter ==
    Cardinality({w \in 1..MaxWorkers : pc[w] \in {"print", "release"}}) <= 1

=============================================================================
